---------------------------- MODULE Spec2Model ----------------------------
(***************************************************************************)
(* A model of brutal: the ECS stage builder and progress driver            *)
(* (brutal_ecs.h) and the lock-free MPMC thread pool (brutal_tpool.h).     *)
(*                                                                         *)
(* The specifications of this module:                                      *)
(*   SpecSched  the system registry and ecs_build_stages                   *)
(*   SpecTick   ecs_progress / ecs_run_system, tasks, command buffers      *)
(*   SpecView   one dispatch: slices and matched views                     *)
(*   SpecPool   tpool_enqueue / tpool_worker / tpool_wait over the ring    *)
(*   SpecPoolLive  SpecPool with the fairness of its threads               *)
(*   SpecQueue  try_enqueue / try_dequeue over the ring                    *)
(*   SpecArena  one lane's data arena                                      *)
(*   SpecEntity ecs_create / ecs_destroy / ecs_add / ecs_remove            *)
(*   SpecAlloc  ecs_create / ecs_destroy from two threads                  *)
(* Bitsets are modelled as sets of bit indices; systems, stages, lanes and *)
(* ring slots are indexed from 0 as in the source.                         *)
(***************************************************************************)
EXTENDS Integers, Sequences, FiniteSets, TLC

\* ---------------------------------------------------------------------
\*  Bounds

\* systems that SpecSched registers (ECS_MAX_SYSTEMS scaled down)
MaxSys == 2
\* registry mutations (require/exclude/read/write/after/enable/disable)
MaxMut == 3

\* entities alive (each with Pos) when SpecTick starts
NumEntities == 2
\* calls of ecs_progress / ecs_run_system in one behaviour of SpecTick
MaxTicks == 1

\* slots of the pool's ring (tpool_new's queue_capacity)
QueueCapacity == 1
\* tpool_enqueue calls made by the submitter threads together
MaxJobs == 2
\* slots of the ring when the queue is driven directly, and try_enqueue
\* calls made on it
RingCapacity == 2
MaxItems == 4
\* deferred adds issued on the lane in one stage
MaxAdds == 3
\* ecs_create / ecs_destroy calls made by the concurrent callers together
MaxCalls == 5
\* entities and lanes of the worlds the matching is run over
ViewEntities == 4
MaxLanes == 3

\* component ids registered in every modelled world
Pos == 0
Vel == 1
Health == 2
Comps == {Pos, Vel, Health}
comp_count == Cardinality(Comps)
\* the components SpecSched declares reads and writes over
SchedComps == {Pos, Vel}

\* entity ids; 0 is the reserved "none" id
EntityIds == 0 .. NumEntities

\* values enqueue_cb returns (0 = accepted)
EnqueueRets == {0, 5}

Max(S) == CHOOSE x \in S : \A y \in S : y <= x

Range(f) == {f[x] : x \in DOMAIN f}

\* array store at a 0-based index of a sequence that holds the array's
\* written prefix
SeqPut(seq, idx, v) ==
    IF idx < Len(seq) THEN [seq EXCEPT ![idx + 1] = v] ELSE Append(seq, v)

VARIABLES
    \* ---- system registry and schedule cache (struct ecs_s)
    systems,            \* [0..system_count-1 -> ecs_system]
    system_count,
    schedule_dirty,
    cached_stages,      \* [0..cached_stage_count-1 -> Seq(system index)]
    cached_stage_count,
    mut_count,          \* number of registry mutations issued so far
    \* ---- entities, pools, command buffers (struct ecs_s)
    pools,              \* [Comps -> [sparse, dense, data]]
    free_list_head,
    free_list_next,
    task_count,
    in_progress,
    cmd_buffers,        \* [0..task_count-1 -> ecs_cmd_buffer]
    \* ---- execution
    tasks,              \* task slot -> ecs_task_args and the task's position
    drv,                \* the thread inside ecs_progress / ecs_run_system
    ticks,              \* calls that have returned
    last_ret,           \* what the last call returned
    \* ---- history (not program state)
    emitted,            \* the deferred commands stored so far: the calls
                        \* [tick, stage, sys, type, entity, component]
    applied,            \* how often ecs_sync applied each of them
    seen,               \* per call and system: the entities passed to fn
    obs,                \* what happened in the current / last call
    \* ---- the entity allocator and one lane's data arena (struct ecs_s)
    next_entity,
    live,               \* history: per ID, the creates not yet destroyed
    arena,              \* a command buffer with its heap blocks
    freed,              \* history: the IDs destroyed and not handed out
                        \* again since, the latest first
    \* ---- the job pool (struct tpool_s) and its threads
    tp,
    thr,
    ran                 \* history: jobs accepted, how often and by whom run,
                        \* quiet: tpool_wait was called with no submitter left,
                        \* full: the jobs try_enqueue found no room for

schedVars == <<systems, system_count, schedule_dirty, cached_stages,
               cached_stage_count, mut_count>>

worldVars == <<pools, free_list_head, free_list_next, task_count,
               in_progress, cmd_buffers>>

execVars == <<tasks, drv, ticks, last_ret>>

histVars == <<emitted, applied, seen, obs>>

tickVars == <<worldVars, execVars, histVars>>

poolVars == <<tp, thr, ran>>

allocVars == <<next_entity, live, arena, freed>>

vars == <<schedVars, tickVars, poolVars, allocVars>>

\* ---------------------------------------------------------------------
\*  System registry

\* ecs_sys_create: memset(s, 0), fn, enabled = true
NewSystem(fn) ==
    [all_of |-> {}, none_of |-> {}, read |-> {}, write |-> {}, rw |-> {},
     after |-> {}, group |-> 0, fn |-> fn, enabled |-> TRUE]

SysIds == 0 .. (system_count - 1)

ecs_sys_create(fn) ==
    /\ system_count < MaxSys
    /\ systems' = [i \in 0 .. system_count |->
                      IF i < system_count THEN systems[i] ELSE NewSystem(fn)]
    /\ system_count' = system_count + 1
    /\ schedule_dirty' = TRUE
    /\ UNCHANGED <<cached_stages, cached_stage_count, mut_count, tickVars, poolVars, allocVars>>

\* the shared tail of every registry mutation: the record changes and the
\* schedule is marked dirty
\* a registry mutation that leaves schedule_dirty as it was
MutateClean(s, rec) ==
    /\ mut_count < MaxMut
    /\ mut_count' = mut_count + 1
    /\ systems' = [systems EXCEPT ![s] = rec]
    /\ UNCHANGED <<schedule_dirty, system_count, cached_stages, cached_stage_count, tickVars, poolVars, allocVars>>

Mutate(s, rec) ==
    /\ mut_count < MaxMut
    /\ mut_count' = mut_count + 1
    /\ systems' = [systems EXCEPT ![s] = rec]
    /\ schedule_dirty' = TRUE
    /\ UNCHANGED <<system_count, cached_stages, cached_stage_count, tickVars, poolVars, allocVars>>

\* the record updates of the registry setters
SetRequire(rec, c) ==
    [rec EXCEPT !.all_of = @ \cup {c}, !.read = @ \cup {c}, !.rw = @ \cup {c}]

SetExclude(rec, c) == [rec EXCEPT !.none_of = @ \cup {c}]

SetRead(rec, c) == [rec EXCEPT !.read = @ \cup {c}, !.rw = @ \cup {c}]

SetWrite(rec, c) == [rec EXCEPT !.write = @ \cup {c}, !.rw = @ \cup {c}]

SetAfter(rec, dependency) == [rec EXCEPT !.after = @ \cup {dependency}]

\* ecs_sys_set_group (schedule_dirty is left alone)
SetGroup(rec, group) == [rec EXCEPT !.group = group]

ecs_sys_require(s, c) == Mutate(s, SetRequire(systems[s], c))

ecs_sys_exclude(s, c) == Mutate(s, SetExclude(systems[s], c))

ecs_sys_read(s, c) == Mutate(s, SetRead(systems[s], c))

ecs_sys_write(s, c) == Mutate(s, SetWrite(systems[s], c))

ecs_sys_after(s, dependency) == Mutate(s, SetAfter(systems[s], dependency))

ecs_sys_enable(s) == Mutate(s, [systems[s] EXCEPT !.enabled = TRUE])

ecs_sys_disable(s) == Mutate(s, [systems[s] EXCEPT !.enabled = FALSE])

\* ---------------------------------------------------------------------
\*  Scheduling

ecs_bs_intersects(a, b) == a \cap b # {}

ConflictOneWay(a, b) == ecs_bs_intersects(a.write, b.rw)

ecs_systems_conflict(a, b) ==
    \/ ecs_bs_intersects(a.write, b.rw)
    \/ ecs_bs_intersects(b.write, a.rw)

\* predecessors from conflicts alone
PredecessorsByConflict(sys, n) ==
    [j \in 0 .. (n - 1) |->
        {i \in 0 .. (j - 1) : ecs_systems_conflict(sys[i], sys[j])}]

\* predecessors[j]: conflict edges i -> j for i < j, then every bit of
\* j.after below n
Predecessors(sys, n) ==
    [j \in 0 .. (n - 1) |->
        {i \in 0 .. (j - 1) : ecs_systems_conflict(sys[i], sys[j])}
        \cup {bit \in sys[j].after : bit < n}]

\* the stage of system i given the stages assigned so far: only predecessors
\* already visited count
\* a stage that is not pushed past its predecessors
StageForLevel(i, n, preds, assign, visited) ==
    LET cand == {assign[p] : p \in {q \in preds[i] : q < n /\ q \in visited}}
    IN  IF cand = {} THEN 0 ELSE Max(cand)

StageFor(i, n, preds, assign, visited) ==
    LET cand == {assign[p] + 1 : p \in {q \in preds[i] : q < n /\ q \in visited}}
    IN  IF cand = {} THEN 0 ELSE Max(cand)

RECURSIVE AssignFrom(_, _, _, _, _)
AssignFrom(i, n, preds, assign, visited) ==
    IF i >= n THEN assign
    ELSE LET stage == StageFor(i, n, preds, assign, visited)
         IN  AssignFrom(i + 1, n, preds,
                        [k \in 0 .. i |-> IF k = i THEN stage ELSE assign[k]],
                        visited \cup {i})

StageAssignment(sys, n) == AssignFrom(0, n, Predecessors(sys, n), <<>>, {})

\* the systems of one stage, in registration order (s->sys_idx)
RECURSIVE StageMembers(_, _, _, _)
StageMembers(i, n, assign, stage) ==
    IF i >= n THEN <<>>
    ELSE (IF assign[i] = stage THEN <<i>> ELSE <<>>)
         \o StageMembers(i + 1, n, assign, stage)

\* ecs_build_stages: [count, stages]
ecs_build_stages(sys, n) ==
    IF n = 0 THEN [count |-> 0, stages |-> <<>>]
    ELSE LET assign == StageAssignment(sys, n)
             count == Max(Range(assign)) + 1
         IN  [count |-> count,
              stages |-> [p \in 0 .. (count - 1) |-> StageMembers(0, n, assign, p)]]

\* the rebuild at the head of ecs_progress and ecs_dump_schedule
RebuildIfDirty ==
    IF schedule_dirty
    THEN LET b == ecs_build_stages(systems, system_count)
         IN  /\ cached_stages' = b.stages
             /\ cached_stage_count' = b.count
             /\ schedule_dirty' = FALSE
    ELSE UNCHANGED <<cached_stages, cached_stage_count, schedule_dirty>>

ecs_dump_schedule ==
    /\ RebuildIfDirty
    /\ UNCHANGED <<systems, system_count, mut_count, tickVars, poolVars, allocVars>>

\* the stage the cached schedule gives system i
StageOf(i) == CHOOSE p \in 0 .. (cached_stage_count - 1) :
                 \E k \in DOMAIN cached_stages[p] : cached_stages[p][k] = i

Scheduled == ~schedule_dirty /\ system_count > 0

\* ---------------------------------------------------------------------
\*  Sparse set and component pool
\*  A pool is [sparse, dense, data]: sparse[e] = dense index + 1 (0 = absent),
\*  dense and data hold the count live slots; C index i is position i + 1.

EmptyPool == [sparse |-> [e \in EntityIds |-> 0], dense |-> <<>>, data |-> <<>>]

ecs_ss_has(pool, e) == e \in DOMAIN pool.sparse /\ pool.sparse[e] # 0

ecs_ss_index_of(pool, e) == pool.sparse[e] - 1

\* ecs_pool_add: a new zeroed slot at index count, or the existing slot
ecs_pool_add(pool, e) ==
    IF ~ecs_ss_has(pool, e)
    THEN [sparse |-> [pool.sparse EXCEPT ![e] = Len(pool.dense) + 1],
          dense |-> Append(pool.dense, e),
          data |-> Append(pool.data, 0)]
    ELSE pool

\* the store through the pointer ecs_pool_add / ecs_pool_get returned
PoolStore(pool, e, v) ==
    [pool EXCEPT !.data[ecs_ss_index_of(pool, e) + 1] = v]

\* a removal that moves the last slot and leaves its sparse entry as it was
PoolRemoveStaleSparse(pool, e) ==
    IF ~ecs_ss_has(pool, e) THEN pool
    ELSE LET idx == ecs_ss_index_of(pool, e)
             last == Len(pool.dense) - 1
         IN  [sparse |-> [pool.sparse EXCEPT ![e] = 0],
              dense |-> SubSeq([pool.dense EXCEPT ![idx + 1] = pool.dense[last + 1]],
                               1, last),
              data |-> SubSeq([pool.data EXCEPT ![idx + 1] = pool.data[last + 1]],
                              1, last)]

\* the value ecs_pool_remove returns: 0 when e is absent, else what
\* ecs_ss_remove returns for a present entity
ecs_pool_remove_ret(pool, e) == IF ~ecs_ss_has(pool, e) THEN 0 ELSE 1

\* a removal that moves the last entity and leaves its payload behind
PoolRemoveNoCopy(pool, e) ==
    IF ~ecs_ss_has(pool, e) THEN pool
    ELSE LET idx == ecs_ss_index_of(pool, e)
             last == Len(pool.dense) - 1
             last_id == pool.dense[last + 1]
             sparse1 == [pool.sparse EXCEPT ![e] = 0]
         IN  [sparse |-> IF idx # last
                         THEN [sparse1 EXCEPT ![last_id] = idx + 1]
                         ELSE sparse1,
              dense |-> SubSeq([pool.dense EXCEPT ![idx + 1] = last_id], 1, last),
              data |-> SubSeq(pool.data, 1, last)]

\* ecs_pool_remove (with ecs_ss_remove): swap the last slot into idx
ecs_pool_remove(pool, e) ==
    IF ~ecs_ss_has(pool, e) THEN pool
    ELSE LET idx == ecs_ss_index_of(pool, e)
             last == Len(pool.dense) - 1
             last_id == pool.dense[last + 1]
             data1 == IF idx # last
                      THEN [pool.data EXCEPT ![idx + 1] = pool.data[last + 1]]
                      ELSE pool.data
             dense1 == [pool.dense EXCEPT ![idx + 1] = last_id]
             sparse1 == [pool.sparse EXCEPT ![e] = 0]
         IN  [sparse |-> IF idx # last
                         THEN [sparse1 EXCEPT ![last_id] = idx + 1]
                         ELSE sparse1,
              dense |-> SubSeq(dense1, 1, last),
              data |-> SubSeq(data1, 1, last)]

ecs_pool_get(pool, e) ==
    IF ~ecs_ss_has(pool, e) THEN -1 ELSE pool.data[ecs_ss_index_of(pool, e) + 1]

ecs_has(e, c) == ecs_ss_has(pools[c], e)

\* ---------------------------------------------------------------------
\*  The mutable world one thread updates: pools, free list, apply counts

World == [pools |-> pools, head |-> free_list_head, next |-> free_list_next,
          applied |-> applied]

ecs_free_list_push(w, e) ==
    [w EXCEPT !.next = [@ EXCEPT ![e] = w.head], !.head = e]

\* ecs_destroy outside a tick: out of every pool, onto the free list
DestroyNow(w, e) ==
    ecs_free_list_push(
        [w EXCEPT !.pools = [c \in Comps |-> ecs_pool_remove(w.pools[c], e)]], e)

\* ecs_add outside a tick, and the store of the payload through its pointer
AddNow(w, e, c, v) ==
    [w EXCEPT !.pools[c] = PoolStore(ecs_pool_add(w.pools[c], e), e, v)]

RemoveNow(w, e, c) == [w EXCEPT !.pools[c] = ecs_pool_remove(w.pools[c], e)]

\* ---------------------------------------------------------------------
\*  Command buffers

EmptyCmdBuffer ==
    [commands |-> <<>>, count |-> 0, data_buffer |-> <<>>, data_offset |-> 0]

\* the buffer of the calling thread: its thread-local task index, or 0 when
\* that index is not a lane
ecs_current_cmd_buffer(tls_task_index) ==
    IF tls_task_index < 0 \/ tls_task_index >= task_count
    THEN 0 ELSE tls_task_index

\* one command of ecs_sync's loop; buf is the lane's buffer
ApplyCmd(w, cmd, buf) ==
    LET w1 == CASE cmd.type = "DESTROY" -> DestroyNow(w, cmd.entity)
                [] cmd.type = "ADD" ->
                       AddNow(w, cmd.entity, cmd.component,
                              buf.data_buffer[cmd.component_data + 1])
                [] cmd.type = "REMOVE" -> RemoveNow(w, cmd.entity, cmd.component)
    IN  [w1 EXCEPT !.applied[cmd.id] = @ + 1]

RECURSIVE ApplyLane(_, _, _)
ApplyLane(w, buf, i) ==
    IF i >= buf.count THEN w
    ELSE ApplyLane(ApplyCmd(w, buf.commands[i + 1], buf), buf, i + 1)

RECURSIVE SyncLanes(_, _)
SyncLanes(w, t) ==
    IF t >= task_count THEN w
    ELSE SyncLanes(ApplyLane(w, cmd_buffers[t], 0), t + 1)

\* ecs_sync: every lane's commands in order, then count and data_offset reset
ecs_sync ==
    LET w == SyncLanes(World, 0)
    IN  /\ pools' = w.pools
        /\ free_list_head' = w.head
        /\ free_list_next' = w.next
        /\ applied' = w.applied
        /\ cmd_buffers' = [t \in DOMAIN cmd_buffers |->
                              [cmd_buffers[t] EXCEPT !.count = 0,
                                                     !.data_offset = 0]]

\* ---------------------------------------------------------------------
\*  Matching

ecs_entity_has_all_of(e, all_of) ==
    \A bit \in all_of : bit < comp_count /\ ecs_ss_has(pools[bit], e)

\* an exclusion test that never excludes
HasAnyOfNever(e, any_of) == FALSE

ecs_entity_has_any_of(e, any_of) ==
    \E bit \in any_of : bit < comp_count /\ ecs_ss_has(pools[bit], e)

NoDriver == -1

\* the required component with the fewest entities (the lowest id on a tie)
ecs_pick_driver(all_of) ==
    LET cand == {c \in all_of : c < comp_count}
        n(c) == Len(pools[c].dense)
    IN  IF cand = {} THEN NoDriver
        ELSE CHOOSE c \in cand :
                 \A d \in cand : n(c) < n(d) \/ (n(c) = n(d) /\ c <= d)

SliceStart(entity_count, slice_index, slice_count) ==
    (entity_count * slice_index) \div slice_count

\* an end that is rounded up
SliceEndRounded(entity_count, slice_index, slice_count) ==
    (entity_count * (slice_index + 1) + slice_count - 1) \div slice_count

SliceEnd(entity_count, slice_index, slice_count) ==
    (entity_count * (slice_index + 1)) \div slice_count

\* the matched entities of dense[start .. end-1], in dense order
RECURSIVE MatchSlice(_, _, _, _)
MatchSlice(s, dense, i, end) ==
    IF i >= end THEN <<>>
    ELSE LET e == dense[i + 1]
             ok == /\ ecs_entity_has_all_of(e, s.all_of)
                   /\ ~(s.none_of # {} /\ ecs_entity_has_any_of(e, s.none_of))
         IN  (IF ok THEN <<e>> ELSE <<>>) \o MatchSlice(s, dense, i + 1, end)

\* the view ecs_run_system_task builds for its slice (empty: fn is not called)
TaskView(s, slice_index, slice_count) ==
    LET drive == ecs_pick_driver(s.all_of)
    IN  IF drive = NoDriver THEN <<>>
        ELSE LET dense == pools[drive].dense
                 n == Len(dense)
             IN  IF n = 0 THEN <<>>
                 ELSE MatchSlice(s, dense,
                                 SliceStart(n, slice_index, slice_count),
                                 SliceEnd(n, slice_index, slice_count))

\* ---------------------------------------------------------------------
\*  System functions (the callbacks the tests register)
\*  kind "add"         mt_writer_system: ecs_add(e, comp) for every entity
\*  kind "add_missing" add_velocity_system: ecs_add unless ecs_has, then the
\*                     payload is written through the returned pointer
\*  kind "remove" / "destroy"   ecs_remove(e, comp) / ecs_destroy(e)
\*  kind "nop"         returns ret without a structural change

FnNop == [kind |-> "nop", comp |-> Pos, val |-> 0, ret |-> 0]

FnFail == [kind |-> "nop", comp |-> Pos, val |-> 0, ret |-> 7]

FnAdd(c) == [kind |-> "add", comp |-> c, val |-> 0, ret |-> 0]

FnAddMissing(c) == [kind |-> "add_missing", comp |-> c, val |-> 3, ret |-> 0]

FnRemove(c) == [kind |-> "remove", comp |-> c, val |-> 0, ret |-> 0]

FnDestroy == [kind |-> "destroy", comp |-> Pos, val |-> 0, ret |-> 0]

CmdType(fn) == CASE fn.kind = "destroy" -> "DESTROY"
                 [] fn.kind = "remove" -> "REMOVE"
                 [] OTHER -> "ADD"

\* ---------------------------------------------------------------------
\*  Tasks (ecs_run_system_task over one ecs_task_args)
\*  tasks is the list of the tasks the current call has handed out; st is
\*  the task's position: "queued", "run" (inside fn), "emit" (inside
\*  ecs_cmd_enqueue, count loaded), "done".

NewTask(slot, sys_index, task_index, slice_index, slice_count, stage) ==
    [slot |-> slot, sys_index |-> sys_index, task_index |-> task_index,
     slice_index |-> slice_index, slice_count |-> slice_count,
     stage |-> stage, st |-> "queued", view |-> <<>>, pos |-> 0,
     rd_count |-> 0, rd_offset |-> 0, ret |-> 0]

TaskIds == DOMAIN tasks

NoLiveTasks == \A k \in TaskIds : tasks[k].st = "done"

\* ecs_run_system_task has returned ret; its locals are dead
Returned(task, ret) ==
    [task EXCEPT !.st = "done", !.ret = ret, !.view = <<>>, !.pos = 0,
                 !.rd_count = 0, !.rd_offset = 0]

\* the task after the entity at view[pos] is dealt with: the next entity, or
\* the return of fn and of ecs_run_system_task
Advance(task, fn) ==
    IF task.pos < Len(task.view)
    THEN [task EXCEPT !.pos = @ + 1, !.st = "run"]
    ELSE Returned(task, fn.ret)

NoteFnReturn(o, task) ==
    IF task.st = "done" /\ task.ret # 0 /\ o.fn_fail = 0
    THEN [o EXCEPT !.fn_fail = task.ret]
    ELSE o

\* ecs_run_system_task up to the call of fn: the thread-local lane index, the
\* driver pool, the slice, the matched view; fn is not called on an empty view
TaskStart(k) ==
    /\ tasks[k].st = "queued"
    /\ LET task == tasks[k]
           s == systems[task.sys_index]
           view == TaskView(s, task.slice_index, task.slice_count)
           task1 == IF view = <<>>
                    THEN Returned(task, 0)
                    ELSE IF s.fn.kind = "nop"
                         THEN Returned(task, s.fn.ret)
                         ELSE [task EXCEPT !.view = view, !.st = "run",
                                           !.pos = 1]
       IN  /\ tasks' = [tasks EXCEPT ![k] = task1]
           /\ seen' = [seen EXCEPT ![task.sys_index] = @ \cup Range(view)]
           /\ obs' = NoteFnReturn(obs, task1)
    /\ UNCHANGED <<schedVars, poolVars, allocVars, worldVars, drv, ticks, last_ret, emitted, applied>>

\* a call that takes the immediate path whatever in_progress says
TaskOpImmediate(k) ==
    /\ tasks[k].st = "run"
    /\ LET task == tasks[k]
           fn == systems[task.sys_index].fn
           e == task.view[task.pos]
           w == CASE CmdType(fn) = "DESTROY" -> DestroyNow(World, e)
                  [] CmdType(fn) = "REMOVE" -> RemoveNow(World, e, fn.comp)
                  [] OTHER -> AddNow(World, e, fn.comp, fn.val)
       IN  /\ pools' = w.pools
           /\ free_list_head' = w.head
           /\ free_list_next' = w.next
           /\ tasks' = [tasks EXCEPT ![k] = Advance(task, fn)]
           /\ obs' = NoteFnReturn(obs, tasks'[k])
           /\ UNCHANGED <<task_count, in_progress, cmd_buffers>>
    /\ UNCHANGED <<schedVars, poolVars, allocVars, drv, ticks, last_ret, emitted, applied, seen>>

\* fn's call of ecs_add / ecs_remove / ecs_destroy for the entity at
\* view[pos]: the immediate path when in_progress is clear, else the deferred
\* path up to the loads of data_offset and count in the lane's buffer
TaskOp(k) ==
    /\ tasks[k].st = "run"
    /\ LET task == tasks[k]
           fn == systems[task.sys_index].fn
           e == task.view[task.pos]
           lane == ecs_current_cmd_buffer(task.task_index)
       IN  IF fn.kind = "add_missing" /\ ecs_has(e, fn.comp)
           THEN /\ tasks' = [tasks EXCEPT ![k] = Advance(task, fn)]
                /\ obs' = NoteFnReturn(obs, tasks'[k])
                /\ UNCHANGED worldVars
           ELSE IF in_progress = 0
           THEN LET w == CASE CmdType(fn) = "DESTROY" -> DestroyNow(World, e)
                           [] CmdType(fn) = "REMOVE" -> RemoveNow(World, e, fn.comp)
                           [] OTHER -> AddNow(World, e, fn.comp, fn.val)
                IN  /\ pools' = w.pools
                    /\ free_list_head' = w.head
                    /\ free_list_next' = w.next
                    /\ tasks' = [tasks EXCEPT ![k] = Advance(task, fn)]
                    /\ obs' = NoteFnReturn(obs, tasks'[k])
                    /\ UNCHANGED <<task_count, in_progress, cmd_buffers>>
           ELSE /\ tasks' = [tasks EXCEPT ![k] =
                                [task EXCEPT !.st = "emit",
                                     !.rd_count = cmd_buffers[lane].count,
                                     !.rd_offset = cmd_buffers[lane].data_offset]]
                /\ UNCHANGED <<worldVars, obs>>
    /\ UNCHANGED <<schedVars, poolVars, allocVars, drv, ticks, last_ret, emitted, applied, seen>>

\* the stores of the deferred path: the payload at the loaded arena offset,
\* data_offset, commands[count], count
TaskStore(k) ==
    /\ tasks[k].st = "emit"
    /\ LET task == tasks[k]
           fn == systems[task.sys_index].fn
           e == task.view[task.pos]
           lane == ecs_current_cmd_buffer(task.task_index)
           cb == cmd_buffers[lane]
           isAdd == CmdType(fn) = "ADD"
           id == [tick |-> ticks, stage |-> task.stage, sys |-> task.sys_index,
                  type |-> CmdType(fn), entity |-> e, component |-> fn.comp]
           cmd == [type |-> CmdType(fn), entity |-> e, component |-> fn.comp,
                   component_data |-> IF isAdd THEN task.rd_offset ELSE -1,
                   id |-> id]
           cb1 == [commands |-> SeqPut(cb.commands, task.rd_count, cmd),
                   count |-> task.rd_count + 1,
                   data_buffer |-> IF isAdd
                                   THEN SeqPut(cb.data_buffer, task.rd_offset, fn.val)
                                   ELSE cb.data_buffer,
                   data_offset |-> IF isAdd THEN task.rd_offset + 1
                                   ELSE cb.data_offset]
       IN  /\ cmd_buffers' = [cmd_buffers EXCEPT ![lane] = cb1]
           /\ emitted' = emitted \cup {id}
           /\ applied' = [c \in emitted \cup {id} |->
                             IF c = id THEN 0 ELSE applied[c]]
           /\ tasks' = [tasks EXCEPT ![k] = Advance(task, fn)]
           /\ obs' = NoteFnReturn(obs, tasks'[k])
    /\ UNCHANGED <<schedVars, poolVars, allocVars, pools, free_list_head, free_list_next,
                   task_count, in_progress, drv, ticks, last_ret, seen>>

\* ---------------------------------------------------------------------
\*  The progress driver (ecs_progress, ecs_run_system)
\*  drv.pc: "idle" (outside any call), "stage" (head of the stage loop),
\*  "inline" / "inline_wait" (ST path, ecs_run_system_task called directly),
\*  "enqueue" (MT path, next enqueue_cb), "wait" (inside wait_cb),
\*  "sync" (end-of-stage sync), "done" (label done).

IdleDriver ==
    [pc |-> "idle", call |-> "none", p |-> 0, active |-> <<>>, i |-> 0,
     t |-> 0, task_slot |-> 0, ret |-> 0, group_mask |-> 0]

IdleObs(ever) ==
    [call |-> "none", enq_fail |-> 0, enq_after_fail |-> FALSE,
     stage_after_fail |-> FALSE, fn_fail |-> 0, stage_after_fn_fail |-> FALSE,
     drained |-> FALSE, ever_failed |-> ever]

\* callbacks are installed together with the lane count
\* (ecs_set_task_callbacks), so mt is decided by task_count
mt == task_count > 1

RECURSIVE BitAnd(_, _)
BitAnd(a, b) ==
    IF a = 0 \/ b = 0 THEN 0
    ELSE (a % 2) * (b % 2) + 2 * BitAnd(a \div 2, b \div 2)

\* a match that wants the group to equal the mask
GroupMatchesExact(group, group_mask) == group = group_mask

GroupMatches(group, group_mask) ==
    IF group_mask = 0 THEN group = 0 ELSE BitAnd(group, group_mask) # 0

\* active_systems of stage p: enabled systems whose group matches the mask
ActiveSystems(p, group_mask) ==
    LET Active(sys_index) ==
            /\ systems[sys_index].enabled
            /\ GroupMatches(systems[sys_index].group, group_mask)
    IN  SelectSeq(cached_stages[p], Active)

ecs_progress_begin(group_mask) ==
    /\ drv.pc = "idle"
    /\ ticks < MaxTicks
    /\ NoLiveTasks
    /\ RebuildIfDirty
    /\ in_progress' = 1
    /\ drv' = [IdleDriver EXCEPT !.pc = "stage", !.call = "progress",
                                 !.group_mask = group_mask]
    /\ tasks' = <<>>
    /\ seen' = [s \in SysIds |-> {}]
    /\ obs' = [IdleObs(obs.ever_failed) EXCEPT !.call = "progress"]
    /\ UNCHANGED <<poolVars, allocVars, systems, system_count, mut_count, pools, free_list_head,
                   free_list_next, task_count, cmd_buffers, ticks, last_ret,
                   emitted, applied>>

\* the head of the stage loop: leave the loop, skip an empty stage, or start
\* the ST or the MT dispatch of the stage's active systems
StageHead ==
    /\ drv.pc = "stage"
    /\ IF drv.p >= cached_stage_count
       THEN /\ drv' = [drv EXCEPT !.pc = "done"]
            /\ UNCHANGED obs
       ELSE LET active == ActiveSystems(drv.p, drv.group_mask)
            IN  IF active = <<>>
                THEN /\ drv' = [drv EXCEPT !.p = @ + 1]
                     /\ UNCHANGED obs
                ELSE /\ drv' = [drv EXCEPT
                                  !.pc = IF mt THEN "enqueue" ELSE "inline",
                                  !.active = active, !.i = 0, !.t = 0,
                                  !.task_slot = 0]
                     /\ obs' = [obs EXCEPT
                                  !.stage_after_fail = @ \/ obs.enq_fail # 0,
                                  !.stage_after_fn_fail = @ \/ obs.fn_fail # 0]
    /\ UNCHANGED <<schedVars, poolVars, allocVars, worldVars, tasks, ticks, last_ret, emitted,
                   applied, seen>>

\* ST path: the args of one whole-range task, run on the calling thread
InlineCall ==
    /\ drv.pc = "inline"
    /\ tasks' = Append(tasks, NewTask(0, drv.active[drv.i + 1], 0, 0, 1, drv.p))
    /\ drv' = [drv EXCEPT !.pc = "inline_wait"]
    /\ UNCHANGED <<schedVars, poolVars, allocVars, worldVars, ticks, last_ret, histVars>>

\* ret = ecs_run_system_task(&a); if (ret) goto done;
InlineReturned(d, ret) ==
    IF d.call = "run_system" \/ ret # 0
    THEN [d EXCEPT !.ret = ret, !.pc = "done"]
    ELSE IF d.i + 1 >= Len(d.active)
         THEN [d EXCEPT !.ret = ret, !.pc = "sync"]
         ELSE [d EXCEPT !.ret = ret, !.i = @ + 1, !.pc = "inline"]

InlineReturn ==
    /\ drv.pc = "inline_wait"
    /\ tasks[Len(tasks)].st = "done"
    /\ drv' = InlineReturned(drv, tasks[Len(tasks)].ret)
    /\ UNCHANGED <<schedVars, poolVars, allocVars, worldVars, tasks, ticks, last_ret, histVars>>

\* task_slot++ and the two loop heads: the next lane, the next active system,
\* or wait_cb
EnqueueAccepted(d) ==
    IF d.t + 1 < task_count
    THEN [d EXCEPT !.t = @ + 1, !.task_slot = @ + 1]
    ELSE IF d.i + 1 < Len(d.active)
         THEN [d EXCEPT !.t = 0, !.i = @ + 1, !.task_slot = @ + 1]
         ELSE [d EXCEPT !.task_slot = @ + 1, !.pc = "wait"]

EnqueueFailureIgnored(d, enqueue_ret) == EnqueueAccepted(d)

\* if (enqueue_ret) { ret = enqueue_ret; goto done; }
EnqueueFailed(d, enqueue_ret) == [d EXCEPT !.ret = enqueue_ret, !.pc = "done"]

\* MT path: fill args[task_slot] and call enqueue_cb, which accepts the task
\* (it runs at any later moment, on any thread) or returns a non-zero status
Enqueue(enqueue_ret) ==
    /\ drv.pc = "enqueue"
    /\ IF enqueue_ret # 0
       THEN /\ drv' = EnqueueFailed(drv, enqueue_ret)
            /\ tasks' = tasks
            /\ obs' = [obs EXCEPT
                         !.enq_after_fail = @ \/ obs.enq_fail # 0,
                         !.enq_fail = IF @ = 0 THEN enqueue_ret ELSE @,
                         !.ever_failed = TRUE]
       ELSE /\ drv' = EnqueueAccepted(drv)
            /\ tasks' = Append(tasks,
                               NewTask(drv.task_slot, drv.active[drv.i + 1],
                                       drv.task_slot, drv.t, task_count, drv.p))
            /\ obs' = [obs EXCEPT !.enq_after_fail = @ \/ obs.enq_fail # 0]
    /\ UNCHANGED <<schedVars, poolVars, allocVars, worldVars, ticks, last_ret, emitted, applied, seen>>

\* a wait_cb that returns at once
WaitReturnsAtOnce ==
    /\ drv.pc = "wait"
    /\ drv' = [drv EXCEPT !.pc = IF drv.call = "progress" THEN "sync" ELSE "done"]
    /\ UNCHANGED <<schedVars, poolVars, allocVars, worldVars, tasks, ticks, last_ret, histVars>>

\* wait_cb returns once every accepted task has returned; the tasks' return
\* values are not read
WaitReturn ==
    /\ drv.pc = "wait"
    /\ NoLiveTasks
    /\ drv' = [drv EXCEPT !.pc = IF drv.call = "progress" THEN "sync" ELSE "done"]
    /\ UNCHANGED <<schedVars, poolVars, allocVars, worldVars, tasks, ticks, last_ret, histVars>>

\* in_progress = 0; ecs_sync; in_progress = 1; p++
StageSync ==
    /\ drv.pc = "sync"
    /\ ecs_sync
    /\ drv' = [drv EXCEPT !.p = @ + 1, !.pc = "stage"]
    /\ UNCHANGED <<schedVars, poolVars, allocVars, task_count, in_progress, tasks, ticks, last_ret,
                   emitted, seen, obs>>

\* done: in_progress = 0; ecs_sync; return ret
Done ==
    /\ drv.pc = "done"
    /\ in_progress' = 0
    /\ ecs_sync
    /\ ticks' = ticks + 1
    /\ last_ret' = drv.ret
    /\ drv' = IdleDriver
    /\ obs' = [obs EXCEPT
                 !.drained = \A t \in DOMAIN cmd_buffers :
                                cmd_buffers'[t].count = 0]
    /\ UNCHANGED <<schedVars, poolVars, allocVars, task_count, tasks, emitted, seen>>

ecs_run_system_begin(sys) ==
    /\ drv.pc = "idle"
    /\ ticks < MaxTicks
    /\ NoLiveTasks
    /\ tasks' = <<>>
    /\ seen' = [s \in SysIds |-> {}]
    /\ obs' = [IdleObs(obs.ever_failed) EXCEPT !.call = "run_system"]
    /\ IF ~systems[sys].enabled
       THEN /\ ticks' = ticks + 1
            /\ last_ret' = 0
            /\ drv' = IdleDriver
            /\ UNCHANGED in_progress
       ELSE /\ in_progress' = 1
            /\ drv' = [IdleDriver EXCEPT
                          !.pc = IF mt THEN "enqueue" ELSE "inline",
                          !.call = "run_system", !.active = <<sys>>]
            /\ UNCHANGED <<ticks, last_ret>>
    /\ UNCHANGED <<schedVars, poolVars, allocVars, pools, free_list_head, free_list_next,
                   task_count, cmd_buffers, emitted, applied>>

\* ---------------------------------------------------------------------
\*  The job pool (brutal_tpool.h): the MPMC ring and struct tpool_s
\*  tp is the shared struct: the ring (head, tail, per slot turn and data),
\*  queued, in_flight, stop, the mutex (its owner) and the threads blocked
\*  on cv_work and cv_done. thr[t] is thread t's position and locals: idx is
\*  the local head / tail of try_enqueue / try_dequeue, job the local
\*  tpool_job_t, n the number of tpool_enqueue calls made, phase the main
\*  thread's progress (0: start, 1: tpool_wait called, 2: in tpool_destroy).
\*  Every step holds at most one access to an atomic or to slot data; a
\*  critical section that only signals is one step.

Submitters == {"s1", "s2"}

Workers == {"w1"}

MainThread == "main"

Threads == Submitters \cup Workers \cup {MainThread}

\* threads that call try_enqueue / try_dequeue on a queue of their own
Producers == {"p1", "p2"}

Consumers == {"c1", "c2"}

QueueThreads == Producers \cup Consumers

nthreads == Cardinality(Workers)

NoJob == [by |-> "none", n |-> 0]

AllJobs == {[by |-> s, n |-> k] : s \in Submitters, k \in 1 .. MaxJobs}

NoOwner == "free"

\* fn arguments of tpool_enqueue: a job function or NULL
Fns == {"fn", "NULL"}

Role(t) == IF t \in Workers THEN "worker"
           ELSE IF t = MainThread THEN "waiter" ELSE "submitter"

\* the slots are calloc'ed
queue_init(capacity) ==
    [head |-> 0, tail |-> 0, capacity |-> capacity,
     turn |-> [i \in 0 .. (capacity - 1) |-> 0],
     data |-> [i \in 0 .. (capacity - 1) |-> NoJob]]

\* the queue after lap rounds of filling it and emptying it again
AfterLaps(q, lap) ==
    [q EXCEPT !.head = lap * q.capacity, !.tail = lap * q.capacity,
              !.turn = [i \in DOMAIN q.turn |-> 2 * lap]]

\* rounds completed before the threads start
StartLaps == {0, 1}

NewPool ==
    queue_init(QueueCapacity) @@
    [queued |-> 0, in_flight |-> 0, stop |-> FALSE,
     mtx |-> NoOwner, cv_work |-> {}, cv_done |-> {}]

NewThread(t) ==
    [pc |-> IF t \in Workers THEN "w_top" ELSE "idle",
     idx |-> 0, job |-> NoJob, n |-> 0, phase |-> 0]

\* the position of thread t with its dead locals cleared
At(t, pc) == [thr[t] EXCEPT !.pc = pc, !.idx = 0, !.job = NoJob]

Goto(t, pc) == thr' = [thr EXCEPT ![t].pc = pc]

\* atomic_compare_exchange_strong on head / tail
CasAlways(current, expected) == TRUE

CompareExchange(current, expected) == current = expected

\* the turn a producer / a consumer holding ticket idx waits for
EnqueueWant(idx) == (idx \div tp.capacity) * 2

DequeueWant(idx) == (idx \div tp.capacity) * 2 + 1

\* where a thread continues after tpool_job_done
AfterJob(t) == IF t \in Workers THEN "w_top"
               ELSE IF t = MainThread THEN "wt_top" ELSE "idle"

RECURSIVE SumN(_)
SumN(S) == IF S = {} THEN 0
           ELSE LET s == CHOOSE x \in S : TRUE
                IN  thr[s].n + SumN(S \ {s})

\* tpool_enqueue calls made so far
Submitted == SumN(Submitters)

\* ---- tpool_enqueue

\* if (!fn) return; if (stop) return;
tpool_enqueue_call(t, fn) ==
    /\ t \in Submitters
    /\ thr[t].pc = "idle"
    /\ Submitted < MaxJobs
    /\ LET job == [by |-> t, n |-> thr[t].n + 1]
       IN  IF fn = "NULL" \/ tp.stop
           THEN /\ thr' = [thr EXCEPT ![t].n = @ + 1]
                /\ UNCHANGED ran
           ELSE /\ thr' = [thr EXCEPT ![t].n = @ + 1, ![t].job = job,
                                      ![t].pc = "enq_in_flight"]
                /\ ran' = [ran EXCEPT !.accepted = @ \cup {job}]
    /\ UNCHANGED tp

\* a tpool_enqueue that publishes the job without counting it
EnqInFlightUncounted(t) ==
    /\ thr[t].pc = "enq_in_flight"
    /\ Goto(t, "te_load_head")
    /\ UNCHANGED <<tp, ran>>

EnqInFlight(t) ==
    /\ thr[t].pc = "enq_in_flight"
    /\ tp' = [tp EXCEPT !.in_flight = @ + 1]
    /\ Goto(t, "te_load_head")
    /\ UNCHANGED ran

\* ---- try_enqueue

\* history of a queue driven directly: put holds <<ticket, item>> for every
\* ticket a producer took, got counts the <<ticket, item>> that try_dequeue
\* copied out
NotePut(t, ticket, item) ==
    IF t \in Producers THEN [ran EXCEPT !.put = @ \cup {<<ticket, item>>}]
    ELSE ran

NoteGot(t, ticket, item) ==
    IF t \in Consumers
    THEN [ran EXCEPT !.got = IF <<ticket, item>> \in DOMAIN @
                             THEN [@ EXCEPT ![<<ticket, item>>] = @ + 1]
                             ELSE @ @@ (<<ticket, item>> :> 1)]
    ELSE ran

\* try_enqueue calls made so far on the queue driven directly
Produced == SumN(Producers)

try_enqueue_call(t) ==
    /\ t \in Producers
    /\ thr[t].pc = "idle"
    /\ Produced < MaxItems
    /\ thr' = [thr EXCEPT ![t].n = @ + 1,
                          ![t].job = [by |-> t, n |-> thr[t].n + 1],
                          ![t].pc = "te_load_head"]
    /\ UNCHANGED <<tp, ran>>

TeLoadHead(t) ==
    /\ thr[t].pc = "te_load_head"
    /\ thr' = [thr EXCEPT ![t].idx = tp.head, ![t].pc = "te_load_turn"]
    /\ UNCHANGED <<tp, ran>>

\* a producer that does not look at the slot's turn
TeLoadTurnAny(t) ==
    /\ thr[t].pc = "te_load_turn"
    /\ Goto(t, "te_cas")
    /\ UNCHANGED <<tp, ran>>

TeLoadTurn(t) ==
    /\ thr[t].pc = "te_load_turn"
    /\ IF tp.turn[thr[t].idx % tp.capacity] = EnqueueWant(thr[t].idx)
       THEN Goto(t, "te_cas")
       ELSE Goto(t, "te_reload")
    /\ UNCHANGED <<tp, ran>>

TeCas(t) ==
    /\ thr[t].pc = "te_cas"
    /\ IF CompareExchange(tp.head, thr[t].idx)
       THEN /\ tp' = [tp EXCEPT !.head = thr[t].idx + 1]
            /\ Goto(t, "te_write")
            /\ ran' = NotePut(t, thr[t].idx, thr[t].job)
       ELSE /\ thr' = [thr EXCEPT ![t].idx = tp.head, ![t].pc = "te_load_turn"]
            /\ UNCHANGED <<tp, ran>>

\* a copy into the first slot whatever the ticket
TeWriteFirstSlot(t) ==
    /\ thr[t].pc = "te_write"
    /\ tp' = [tp EXCEPT !.data[0] = thr[t].job]
    /\ Goto(t, "te_store_turn")
    /\ UNCHANGED ran

\* memcpy(s->data, item, JOB_SIZE)
TeWrite(t) ==
    /\ thr[t].pc = "te_write"
    /\ tp' = [tp EXCEPT !.data[thr[t].idx % tp.capacity] = thr[t].job]
    /\ Goto(t, "te_store_turn")
    /\ UNCHANGED ran

TeStoreTurn(t) ==
    /\ thr[t].pc = "te_store_turn"
    /\ tp' = [tp EXCEPT !.turn[thr[t].idx % tp.capacity] =
                            EnqueueWant(thr[t].idx) + 1]
    /\ thr' = [thr EXCEPT ![t] = At(t, IF t \in Producers THEN "idle"
                                       ELSE "enq_queued")]
    /\ UNCHANGED ran

\* head = load(q->head); if (head == prev) return false: the ring is full and
\* tpool_enqueue runs the job itself
TeReload(t) ==
    /\ thr[t].pc = "te_reload"
    /\ IF tp.head = thr[t].idx
       THEN /\ IF t \in Producers
               THEN thr' = [thr EXCEPT ![t] = At(t, "idle")]
               ELSE Goto(t, "inline_run")
            /\ ran' = [ran EXCEPT !.full = @ \cup {thr[t].job}]
       ELSE /\ thr' = [thr EXCEPT ![t].idx = tp.head, ![t].pc = "te_load_turn"]
            /\ UNCHANGED ran
    /\ UNCHANGED tp

\* prev = fetch_add(queued, 1); if (prev < nthreads) signal
EnqQueued(t) ==
    /\ thr[t].pc = "enq_queued"
    /\ tp' = [tp EXCEPT !.queued = @ + 1]
    /\ IF tp.queued < nthreads THEN Goto(t, "enq_signal") ELSE Goto(t, "idle")
    /\ UNCHANGED ran

\* a tpool_enqueue that signals nobody
EnqSignalNobody(t) ==
    /\ thr[t].pc = "enq_signal"
    /\ tp.mtx = NoOwner
    /\ Goto(t, "idle")
    /\ UNCHANGED <<tp, ran>>

\* lock; pthread_cond_signal(cv_work); unlock
EnqSignal(t) ==
    /\ thr[t].pc = "enq_signal"
    /\ tp.mtx = NoOwner
    /\ IF tp.cv_work = {}
       THEN UNCHANGED tp
       ELSE \E w \in tp.cv_work : tp' = [tp EXCEPT !.cv_work = @ \ {w}]
    /\ Goto(t, "idle")
    /\ UNCHANGED ran

\* ---- the job and tpool_job_done

Executed(r, job, t) ==
    [r EXCEPT !.count[job] = @ + 1, !.by = @ \cup {<<job, Role(t)>>}]

\* a full ring that makes tpool_enqueue give the job up
InlineDrop(t) ==
    /\ thr[t].pc = "inline_run"
    /\ thr' = [thr EXCEPT ![t] = At(t, "jd_dec")]
    /\ UNCHANGED <<tp, ran>>

\* fn(arg) on the submitting thread
InlineRun(t) ==
    /\ thr[t].pc = "inline_run"
    /\ ran' = Executed(ran, thr[t].job, t)
    /\ thr' = [thr EXCEPT ![t] = At(t, "jd_dec")]
    /\ UNCHANGED tp

\* job.fn(job.arg) on a worker or on the thread in tpool_wait
Run(t) ==
    /\ thr[t].pc = "run"
    /\ ran' = Executed(ran, thr[t].job, t)
    /\ thr' = [thr EXCEPT ![t] = At(t, "jd_dec")]
    /\ UNCHANGED tp

JdDec(t) ==
    /\ thr[t].pc = "jd_dec"
    /\ tp' = [tp EXCEPT !.in_flight = @ - 1]
    /\ IF tp.in_flight - 1 = 0
       THEN Goto(t, "jd_broadcast")
       ELSE Goto(t, AfterJob(t))
    /\ UNCHANGED ran

\* a tpool_job_done that leaves cv_done alone
JdNoBroadcast(t) ==
    /\ thr[t].pc = "jd_broadcast"
    /\ tp.mtx = NoOwner
    /\ Goto(t, AfterJob(t))
    /\ UNCHANGED <<tp, ran>>

\* lock; pthread_cond_broadcast(cv_done); unlock
JdBroadcast(t) ==
    /\ thr[t].pc = "jd_broadcast"
    /\ tp.mtx = NoOwner
    /\ tp' = [tp EXCEPT !.cv_done = {}]
    /\ Goto(t, AfterJob(t))
    /\ UNCHANGED ran

\* ---- try_dequeue (called by tpool_worker and tpool_wait)

\* where the caller continues when try_dequeue returns false
AfterEmpty(t) == IF t \in Workers THEN "w_chk_stop"
                 ELSE IF t \in Consumers THEN "idle" ELSE "wt_lock"

try_dequeue_call(t) ==
    /\ t \in Consumers
    /\ thr[t].pc = "idle"
    /\ Goto(t, "td_load_tail")
    /\ UNCHANGED <<tp, ran>>

TdLoadTail(t) ==
    /\ thr[t].pc = "td_load_tail"
    /\ thr' = [thr EXCEPT ![t].idx = tp.tail, ![t].pc = "td_load_turn"]
    /\ UNCHANGED <<tp, ran>>

TdLoadTurn(t) ==
    /\ thr[t].pc = "td_load_turn"
    /\ IF tp.turn[thr[t].idx % tp.capacity] = DequeueWant(thr[t].idx)
       THEN Goto(t, "td_cas")
       ELSE Goto(t, "td_reload")
    /\ UNCHANGED <<tp, ran>>

\* a tail exchange that takes the ticket whatever tail holds
TdCasBlind(t) ==
    /\ thr[t].pc = "td_cas"
    /\ tp' = [tp EXCEPT !.tail = thr[t].idx + 1]
    /\ Goto(t, "td_read")
    /\ UNCHANGED ran

TdCas(t) ==
    /\ thr[t].pc = "td_cas"
    /\ IF CompareExchange(tp.tail, thr[t].idx)
       THEN /\ tp' = [tp EXCEPT !.tail = thr[t].idx + 1]
            /\ Goto(t, "td_read")
       ELSE /\ thr' = [thr EXCEPT ![t].idx = tp.tail, ![t].pc = "td_load_turn"]
            /\ UNCHANGED tp
    /\ UNCHANGED ran

\* memcpy(item, s->data, JOB_SIZE)
TdRead(t) ==
    /\ thr[t].pc = "td_read"
    /\ thr' = [thr EXCEPT ![t].job = tp.data[thr[t].idx % tp.capacity],
                          ![t].pc = "td_store_turn"]
    /\ ran' = NoteGot(t, thr[t].idx, tp.data[thr[t].idx % tp.capacity])
    /\ UNCHANGED tp

\* a consumer that hands the slot back with its turn reset
TdStoreTurnReset(t) ==
    /\ thr[t].pc = "td_store_turn"
    /\ tp' = [tp EXCEPT !.turn[thr[t].idx % tp.capacity] = 0]
    /\ thr' = IF t \in Consumers
              THEN [thr EXCEPT ![t] = At(t, "idle")]
              ELSE [thr EXCEPT ![t].idx = 0, ![t].pc = "deq_dec"]
    /\ UNCHANGED ran

TdStoreTurn(t) ==
    /\ thr[t].pc = "td_store_turn"
    /\ tp' = [tp EXCEPT !.turn[thr[t].idx % tp.capacity] =
                            DequeueWant(thr[t].idx) + 1]
    /\ thr' = IF t \in Consumers
              THEN [thr EXCEPT ![t] = At(t, "idle")]
              ELSE [thr EXCEPT ![t].idx = 0, ![t].pc = "deq_dec"]
    /\ UNCHANGED ran

TdReload(t) ==
    /\ thr[t].pc = "td_reload"
    /\ IF tp.tail = thr[t].idx
       THEN thr' = [thr EXCEPT ![t] = At(t, AfterEmpty(t))]
       ELSE thr' = [thr EXCEPT ![t].idx = tp.tail, ![t].pc = "td_load_turn"]
    /\ UNCHANGED <<tp, ran>>

\* fetch_sub(queued, 1) after a successful try_dequeue
DeqDec(t) ==
    /\ thr[t].pc = "deq_dec"
    /\ tp' = [tp EXCEPT !.queued = @ - 1]
    /\ Goto(t, "run")
    /\ UNCHANGED ran

\* ---- tpool_worker

\* if (load(queued) != 0) try_dequeue ...
WTop(t) ==
    /\ thr[t].pc = "w_top"
    /\ IF tp.queued # 0 THEN Goto(t, "td_load_tail") ELSE Goto(t, "w_chk_stop")
    /\ UNCHANGED <<tp, ran>>

\* if (load(stop) && load(in_flight) == 0) return NULL;
\* a worker that goes on to its test of in_flight whatever stop holds
WChkStopAny(t) ==
    /\ thr[t].pc = "w_chk_stop"
    /\ Goto(t, "w_chk_in_flight")
    /\ UNCHANGED <<tp, ran>>

WChkStop(t) ==
    /\ thr[t].pc = "w_chk_stop"
    /\ IF tp.stop THEN Goto(t, "w_chk_in_flight") ELSE Goto(t, "w_lock")
    /\ UNCHANGED <<tp, ran>>

WChkInFlight(t) ==
    /\ thr[t].pc = "w_chk_in_flight"
    /\ IF tp.in_flight = 0 THEN Goto(t, "exited") ELSE Goto(t, "w_lock")
    /\ UNCHANGED <<tp, ran>>

WLock(t) ==
    /\ thr[t].pc = "w_lock"
    /\ tp.mtx = NoOwner
    /\ tp' = [tp EXCEPT !.mtx = t]
    /\ Goto(t, "w_while_stop")
    /\ UNCHANGED ran

\* while (!load(stop) && load(queued) == 0) pthread_cond_wait(cv_work)
WWhileStop(t) ==
    /\ thr[t].pc = "w_while_stop"
    /\ IF tp.stop
       THEN /\ tp' = [tp EXCEPT !.mtx = NoOwner]
            /\ Goto(t, "w_top")
       ELSE /\ Goto(t, "w_while_queued")
            /\ UNCHANGED tp
    /\ UNCHANGED ran

WWhileQueued(t) ==
    /\ thr[t].pc = "w_while_queued"
    /\ IF tp.queued = 0
       THEN /\ tp' = [tp EXCEPT !.mtx = NoOwner, !.cv_work = @ \cup {t}]
            /\ Goto(t, "w_sleep")
       ELSE /\ tp' = [tp EXCEPT !.mtx = NoOwner]
            /\ Goto(t, "w_top")
    /\ UNCHANGED ran

\* pthread_cond_wait returns: signalled, and the mutex re-acquired
WWake(t) ==
    /\ thr[t].pc = "w_sleep"
    /\ t \notin tp.cv_work
    /\ tp.mtx = NoOwner
    /\ tp' = [tp EXCEPT !.mtx = t]
    /\ Goto(t, "w_while_stop")
    /\ UNCHANGED ran

\* ---- tpool_wait

\* the submitter threads have made their calls and are joined
SubmittersJoined ==
    /\ Submitted = MaxJobs
    /\ \A s \in Submitters : thr[s].pc = "idle"

\* the main thread calls tpool_wait, and, once the submitters are joined,
\* tpool_destroy (which starts with tpool_wait)
tpool_wait_call ==
    /\ thr[MainThread].pc = "idle"
    /\ thr[MainThread].phase = 0
    /\ thr' = [thr EXCEPT ![MainThread].pc = "wt_top", ![MainThread].phase = 1]
    /\ ran' = [ran EXCEPT !.quiet = SubmittersJoined]
    /\ UNCHANGED tp

\* a tpool_destroy that goes straight to its store of stop
DestroyWithoutWait ==
    /\ thr[MainThread].pc = "idle"
    /\ thr[MainThread].phase = 1
    /\ SubmittersJoined
    /\ thr' = [thr EXCEPT ![MainThread].pc = "d_stop", ![MainThread].phase = 2]
    /\ UNCHANGED <<tp, ran>>

tpool_destroy_call ==
    /\ thr[MainThread].pc = "idle"
    /\ thr[MainThread].phase = 1
    /\ SubmittersJoined
    /\ thr' = [thr EXCEPT ![MainThread].pc = "wt_top", ![MainThread].phase = 2]
    /\ UNCHANGED <<tp, ran>>

\* a tpool_wait that returns whatever in_flight holds
WtTopReturns(t) ==
    /\ thr[t].pc = "wt_top"
    /\ Goto(t, IF thr[t].phase = 2 THEN "d_stop" ELSE "idle")
    /\ UNCHANGED <<tp, ran>>

\* if (load(in_flight) == 0) return;
WtTop(t) ==
    /\ thr[t].pc = "wt_top"
    /\ IF tp.in_flight = 0
       THEN Goto(t, IF thr[t].phase = 2 THEN "d_stop" ELSE "idle")
       ELSE Goto(t, "wt_queued")
    /\ UNCHANGED <<tp, ran>>

WtQueued(t) ==
    /\ thr[t].pc = "wt_queued"
    /\ IF tp.queued # 0 THEN Goto(t, "td_load_tail") ELSE Goto(t, "wt_lock")
    /\ UNCHANGED <<tp, ran>>

WtLock(t) ==
    /\ thr[t].pc = "wt_lock"
    /\ tp.mtx = NoOwner
    /\ tp' = [tp EXCEPT !.mtx = t]
    /\ Goto(t, "wt_while_in_flight")
    /\ UNCHANGED ran

\* while (load(in_flight) != 0 && load(queued) == 0) pthread_cond_wait(cv_done)
WtWhileInFlight(t) ==
    /\ thr[t].pc = "wt_while_in_flight"
    /\ IF tp.in_flight # 0
       THEN /\ Goto(t, "wt_while_queued")
            /\ UNCHANGED tp
       ELSE /\ tp' = [tp EXCEPT !.mtx = NoOwner]
            /\ Goto(t, "wt_top")
    /\ UNCHANGED ran

WtWhileQueued(t) ==
    /\ thr[t].pc = "wt_while_queued"
    /\ IF tp.queued = 0
       THEN /\ tp' = [tp EXCEPT !.mtx = NoOwner, !.cv_done = @ \cup {t}]
            /\ Goto(t, "wt_sleep")
       ELSE /\ tp' = [tp EXCEPT !.mtx = NoOwner]
            /\ Goto(t, "wt_top")
    /\ UNCHANGED ran

WtWake(t) ==
    /\ thr[t].pc = "wt_sleep"
    /\ t \notin tp.cv_done
    /\ tp.mtx = NoOwner
    /\ tp' = [tp EXCEPT !.mtx = t]
    /\ Goto(t, "wt_while_in_flight")
    /\ UNCHANGED ran

\* ---- tpool_destroy after its tpool_wait

DStop(t) ==
    /\ thr[t].pc = "d_stop"
    /\ tp' = [tp EXCEPT !.stop = TRUE]
    /\ Goto(t, "d_broadcast")
    /\ UNCHANGED ran

\* lock; pthread_cond_broadcast(cv_work); unlock
DBroadcast(t) ==
    /\ thr[t].pc = "d_broadcast"
    /\ tp.mtx = NoOwner
    /\ tp' = [tp EXCEPT !.cv_work = {}]
    /\ Goto(t, "d_join")
    /\ UNCHANGED ran

\* pthread_join of every worker
DJoin(t) ==
    /\ thr[t].pc = "d_join"
    /\ \A w \in Workers : thr[w].pc = "exited"
    /\ Goto(t, "destroyed")
    /\ UNCHANGED <<tp, ran>>

IdlePool ==
    /\ tp = NewPool
    /\ thr = [t \in Threads |-> NewThread(t)]
    /\ ran = [accepted |-> {}, count |-> [j \in AllJobs \cup {NoJob} |-> 0],
              by |-> {}, quiet |-> FALSE, full |-> {}, put |-> {}, got |-> <<>>]

\* ---------------------------------------------------------------------
\*  The entity allocator, called from one thread outside a tick

\* a pop that returns the head and leaves it on the list
PopKeepsHead(w) ==
    IF w.head = -1 THEN [e |-> 0, head |-> w.head]
    ELSE [e |-> w.head, head |-> w.head]

\* the ID popped (0 when the list is empty) and the new head
ecs_free_list_pop(w) ==
    IF w.head = -1 THEN [e |-> 0, head |-> w.head]
    ELSE [e |-> w.head, head |-> w.next[w.head]]

\* seq without its first occurrence of e
RECURSIVE Without(_, _)
Without(seq, e) ==
    IF seq = <<>> THEN <<>>
    ELSE IF Head(seq) = e THEN Tail(seq)
    ELSE <<Head(seq)>> \o Without(Tail(seq), e)

\* a create that takes a fresh ID while the counter allows and recycles
\* only then
CreateFreshFirst ==
    /\ in_progress = 0
    /\ LET r == ecs_free_list_pop(World)
       IN  IF next_entity <= NumEntities
           THEN /\ next_entity' = next_entity + 1
                /\ live' = [live EXCEPT ![next_entity] = @ + 1]
                /\ UNCHANGED <<free_list_head, freed>>
           ELSE /\ r.e # 0
                /\ free_list_head' = r.head
                /\ live' = [live EXCEPT ![r.e] = @ + 1]
                /\ freed' = Without(freed, r.e)
                /\ UNCHANGED next_entity
    /\ UNCHANGED <<schedVars, poolVars, execVars, histVars, arena, pools,
                   free_list_next, task_count, in_progress, cmd_buffers>>

\* e = ecs_free_list_pop(ecs); if (e) return e; return fetch_add(next_entity, 1)
ecs_create ==
    /\ in_progress = 0
    /\ LET r == ecs_free_list_pop(World)
       IN  IF r.e # 0
           THEN /\ free_list_head' = r.head
                /\ live' = [live EXCEPT ![r.e] = @ + 1]
                /\ freed' = Without(freed, r.e)
                /\ UNCHANGED next_entity
           ELSE /\ next_entity <= NumEntities
                /\ next_entity' = next_entity + 1
                /\ live' = [live EXCEPT ![next_entity] = @ + 1]
                /\ UNCHANGED <<free_list_head, freed>>
    /\ UNCHANGED <<schedVars, poolVars, execVars, histVars, arena, pools,
                   free_list_next, task_count, in_progress, cmd_buffers>>

\* ecs_destroy outside a tick, of an entity that is live
ecs_destroy(e) ==
    /\ in_progress = 0
    /\ live[e] = 1
    /\ LET w == DestroyNow(World, e)
       IN  /\ pools' = w.pools
           /\ free_list_head' = w.head
           /\ free_list_next' = w.next
    /\ live' = [live EXCEPT ![e] = @ - 1]
    /\ freed' = <<e>> \o freed
    /\ UNCHANGED <<schedVars, poolVars, execVars, histVars, arena, next_entity,
                   task_count, in_progress, cmd_buffers>>

\* ecs_add outside a tick, to an entity that is live, and the payload stored
ecs_add(e, c) ==
    /\ in_progress = 0
    /\ live[e] = 1
    /\ pools' = AddNow(World, e, c, e).pools
    /\ UNCHANGED <<schedVars, poolVars, execVars, histVars, allocVars,
                   free_list_head, free_list_next, task_count, in_progress,
                   cmd_buffers>>

\* ecs_remove outside a tick, from an entity that is live
ecs_remove(e, c) ==
    /\ in_progress = 0
    /\ live[e] = 1
    /\ pools' = RemoveNow(World, e, c).pools
    /\ UNCHANGED <<schedVars, poolVars, execVars, histVars, allocVars,
                   free_list_head, free_list_next, task_count, in_progress,
                   cmd_buffers>>

\* ---------------------------------------------------------------------
\*  The entity allocator called from several threads at once. Every step
\*  holds one access to free_list_head, free_list_next or next_entity.
\*  thr[t]: pc, the locals old_head / new_head of ecs_free_list_pop and
\*  ecs_free_list_push, e the entity being destroyed, n the calls made.

AllocThreads == {"a1", "a2"}

NewCaller == [pc |-> "idle", old_head |-> -1, new_head |-> -1, e |-> 0, n |-> 0]

\* the thread back outside any call, its locals dead
CallerIdle(t) == [NewCaller EXCEPT !.n = thr[t].n]

\* calls made so far by all callers
AllocCalls == thr["a1"].n + thr["a2"].n

\* what an allocator step of one thread leaves alone whatever it does
AllocFrame ==
    UNCHANGED <<schedVars, execVars, histVars, arena, tp, ran, task_count,
                in_progress, cmd_buffers>>

\* atomic_compare_exchange_weak: may also fail when the values are equal
CompareExchangeWeak(current, expected, spurious) ==
    current = expected /\ ~spurious

\* ---- ecs_create

CreateCall(t) ==
    /\ thr[t].pc = "idle"
    /\ AllocCalls < MaxCalls
    /\ thr' = [thr EXCEPT ![t].pc = "pop_load_head", ![t].n = @ + 1]
    /\ UNCHANGED <<pools, free_list_head, free_list_next, next_entity, live, freed>>
    /\ AllocFrame

\* old_head = atomic_load(&ecs->free_list_head); if (old_head == -1) return 0
PopLoadHead(t) ==
    /\ thr[t].pc = "pop_load_head"
    /\ thr' = [thr EXCEPT ![t].old_head = free_list_head,
                          ![t].pc = IF free_list_head = -1 THEN "fetch_add"
                                    ELSE "pop_load_next"]
    /\ UNCHANGED <<pools, free_list_head, free_list_next, next_entity, live, freed>>
    /\ AllocFrame

\* new_head = ecs->free_list_next[old_head]
PopLoadNext(t) ==
    /\ thr[t].pc = "pop_load_next"
    /\ thr' = [thr EXCEPT ![t].new_head = free_list_next[thr[t].old_head],
                          ![t].pc = "pop_cas"]
    /\ UNCHANGED <<pools, free_list_head, free_list_next, next_entity, live, freed>>
    /\ AllocFrame

\* the compare-exchange of the pop loop; on success ecs_create returns
\* old_head
PopCas(t) ==
    /\ thr[t].pc = "pop_cas"
    /\ \E spurious \in BOOLEAN :
           IF CompareExchangeWeak(free_list_head, thr[t].old_head, spurious)
           THEN /\ free_list_head' = thr[t].new_head
                /\ live' = [live EXCEPT ![thr[t].old_head] = @ + 1]
                /\ freed' = Without(freed, thr[t].old_head)
                /\ thr' = [thr EXCEPT ![t] = CallerIdle(t)]
           ELSE /\ thr' = [thr EXCEPT ![t].pc = "pop_load_head"]
                /\ UNCHANGED <<free_list_head, live, freed>>
    /\ UNCHANGED <<pools, free_list_next, next_entity>>
    /\ AllocFrame

\* return atomic_fetch_add(&ecs->next_entity, 1)
CreateFetchAdd(t) ==
    /\ thr[t].pc = "fetch_add"
    /\ next_entity <= NumEntities
    /\ next_entity' = next_entity + 1
    /\ live' = [live EXCEPT ![next_entity] = @ + 1]
    /\ thr' = [thr EXCEPT ![t] = CallerIdle(t)]
    /\ UNCHANGED <<pools, free_list_head, free_list_next, freed>>
    /\ AllocFrame

\* ---- ecs_destroy outside a tick, of an entity ecs_create returned

\* the entity out of every pool (free_list_capacity is not reached)
DestroyCall(t, e) ==
    /\ thr[t].pc = "idle"
    /\ AllocCalls < MaxCalls
    /\ in_progress = 0
    /\ live[e] >= 1
    /\ pools' = [c \in Comps |-> ecs_pool_remove(pools[c], e)]
    /\ live' = [live EXCEPT ![e] = @ - 1]
    /\ freed' = <<e>> \o freed
    /\ thr' = [thr EXCEPT ![t].pc = "push_load_head", ![t].e = e, ![t].n = @ + 1]
    /\ UNCHANGED <<free_list_head, free_list_next, next_entity>>
    /\ AllocFrame

\* old_head = atomic_load(&ecs->free_list_head)
PushLoadHead(t) ==
    /\ thr[t].pc = "push_load_head"
    /\ thr' = [thr EXCEPT ![t].old_head = free_list_head,
                          ![t].pc = "push_store_next"]
    /\ UNCHANGED <<pools, free_list_head, free_list_next, next_entity, live, freed>>
    /\ AllocFrame

\* ecs->free_list_next[entity] = old_head
PushStoreNext(t) ==
    /\ thr[t].pc = "push_store_next"
    /\ free_list_next' = [free_list_next EXCEPT ![thr[t].e] = thr[t].old_head]
    /\ thr' = [thr EXCEPT ![t].pc = "push_cas"]
    /\ UNCHANGED <<pools, free_list_head, next_entity, live, freed>>
    /\ AllocFrame

PushCas(t) ==
    /\ thr[t].pc = "push_cas"
    /\ \E spurious \in BOOLEAN :
           IF CompareExchangeWeak(free_list_head, thr[t].old_head, spurious)
           THEN /\ free_list_head' = thr[t].e
                /\ thr' = [thr EXCEPT ![t] = CallerIdle(t)]
           ELSE /\ thr' = [thr EXCEPT ![t].pc = "push_load_head"]
                /\ UNCHANGED free_list_head
    /\ UNCHANGED <<pools, free_list_next, next_entity, live, freed>>
    /\ AllocFrame

\* ---------------------------------------------------------------------
\*  One lane's data arena (ecs_cmd_buffer.data_buffer) with the heap blocks
\*  behind it. Sizes are in units of the component's element_size, so the
\*  arena's initial 1024 * 1024 bytes are DataCapacity elements of a 512 KiB
\*  component. arena.blocks[b] is a block malloc / realloc returned: live until
\*  realloc moves it, bytes its contents; a pointer is [block, offset].
\*  ret, wrote and copied are history: the pointer each ecs_add returned, the
\*  value last stored through it, what ecs_sync copied for the command.

DataCapacity == 2

\* what a system stores into a staged component
Payloads == {1, 2}

\* contents of memory never written, or read after it was freed
Junk == -1

\* ecs_cmd_buffer_init
NewArena ==
    [blocks |-> <<[live |-> TRUE, bytes |-> [i \in 1 .. DataCapacity |-> Junk]]>>,
     data_buffer |-> 1, data_capacity |-> DataCapacity, data_offset |-> 0,
     commands |-> <<>>, ret |-> <<>>, wrote |-> <<>>, copied |-> <<>>,
     pc |-> "tick"]

\* while (new_cap < data_offset + size) new_cap *= 2
RECURSIVE GrowTo(_, _)
GrowTo(new_cap, need) ==
    IF new_cap < need THEN GrowTo(new_cap * 2, need) ELSE new_cap

\* realloc(block, new_cap): the block grown in place, or a new block with the
\* old contents and the old block freed
Realloc(a, new_cap, moved) ==
    LET old == a.blocks[a.data_buffer]
        grown == [i \in 1 .. new_cap |->
                     IF i <= Len(old.bytes) THEN old.bytes[i] ELSE Junk]
    IN  IF moved
        THEN [a EXCEPT !.blocks = Append([@ EXCEPT ![a.data_buffer].live = FALSE],
                                         [live |-> TRUE, bytes |-> grown]),
                       !.data_buffer = Len(a.blocks) + 1,
                       !.data_capacity = new_cap]
        ELSE [a EXCEPT !.blocks[a.data_buffer].bytes = grown,
                       !.data_capacity = new_cap]

\* the arena after ecs_cmd_alloc_data(cb, size); the pointer it returns is
\* [block |-> result.data_buffer, offset |-> a.data_offset]
ecs_cmd_alloc_data(a, size, moved) ==
    LET a1 == IF a.data_offset + size > a.data_capacity
              THEN Realloc(a, GrowTo(a.data_capacity * 2, a.data_offset + size),
                           moved)
              ELSE a
    IN  [a1 EXCEPT !.data_offset = @ + size]

\* ecs_add inside a tick: the bytes allocated and zeroed, the command with
\* component_data pointing at them, the pointer returned
ecs_add_deferred ==
    /\ arena.pc = "tick"
    /\ Len(arena.commands) < MaxAdds
    /\ \E moved \in BOOLEAN :
           LET a1 == ecs_cmd_alloc_data(arena, 1, moved)
               data == [block |-> a1.data_buffer, offset |-> arena.data_offset]
           IN  arena' = [a1 EXCEPT
                           !.blocks[data.block].bytes[data.offset + 1] = 0,
                           !.commands = Append(@, [type |-> "ADD",
                                                   component_data |-> data]),
                           !.ret = Append(@, data),
                           !.wrote = Append(@, 0)]
    /\ UNCHANGED <<schedVars, tickVars, poolVars, next_entity, live, freed>>

\* the system initialises the component in place through the pointer the
\* i-th ecs_add returned (a store into a freed block lands in that block)
StoreThrough(i, v) ==
    /\ arena.pc = "tick"
    /\ i \in 1 .. Len(arena.ret)
    /\ LET data == arena.ret[i]
       IN  arena' = [arena EXCEPT
                        !.blocks[data.block].bytes[data.offset + 1] = v,
                        !.wrote[i] = v]
    /\ UNCHANGED <<schedVars, tickVars, poolVars, next_entity, live, freed>>

\* ecs_sync on the lane: memcpy(dst, cmd->component_data, elem_size) for
\* every command, then count = 0 and data_offset = 0. A read of a freed
\* block gives what the block last held or anything else
ArenaSync ==
    /\ arena.pc = "tick"
    /\ arena.commands # <<>>
    /\ \E stale \in [1 .. Len(arena.commands) -> BOOLEAN] :
           arena' = [arena EXCEPT
               !.copied = [i \in 1 .. Len(arena.commands) |->
                   LET data == arena.commands[i].component_data
                       blk == arena.blocks[data.block]
                   IN  IF blk.live \/ stale[i]
                       THEN blk.bytes[data.offset + 1]
                       ELSE Junk],
               !.data_offset = 0,
               !.pc = "synced"]
    /\ UNCHANGED <<schedVars, tickVars, poolVars, next_entity, live, freed>>

\* ---------------------------------------------------------------------
\*  Worlds the specifications start from

\* free_list_next is malloc'ed and not initialised; NoEntity stands for a
\* cell not written yet (it is read only after ecs_free_list_push wrote it)
NoEntity == -1

RECURSIVE CreateWithPos(_, _)
CreateWithPos(pool, e) ==
    IF e > NumEntities THEN pool
    ELSE CreateWithPos(PoolStore(ecs_pool_add(pool, e), e, e), e + 1)

\* ecs_new, the three ECS_COMPONENTs, then NumEntities times ecs_create and
\* ecs_add(e, Pos) with the payload written (tests' setup loops)
InitWorld(lanes) ==
    /\ pools = [c \in Comps |-> IF c = Pos THEN CreateWithPos(EmptyPool, 1)
                                ELSE EmptyPool]
    /\ free_list_head = NoEntity
    /\ free_list_next = [e \in EntityIds |-> NoEntity]
    /\ task_count = lanes
    /\ in_progress = 0
    /\ cmd_buffers = [t \in 0 .. (lanes - 1) |-> EmptyCmdBuffer]
    /\ tasks = <<>>
    /\ drv = IdleDriver
    /\ ticks = 0
    /\ last_ret = 0
    /\ emitted = {}
    /\ applied = <<>>
    /\ seen = <<>>
    /\ obs = IdleObs(FALSE)
    /\ next_entity = NumEntities + 1
    /\ live = [e \in EntityIds |-> IF e = 0 THEN 0 ELSE 1]
    /\ arena = NewArena
    /\ freed = <<>>

\* test_stage_sync_applies_deferred_adds: the adder requires Pos and excludes
\* Vel, the consumer requires Pos and Vel
RegDeferred ==
    [i \in 0 .. 1 |->
        IF i = 0
        THEN SetExclude(SetRequire(NewSystem(FnAddMissing(Vel)), Pos), Vel)
        ELSE SetRequire(SetRequire(NewSystem(FnNop), Pos), Vel)]

\* test_mt_conflicting_systems_staged: the writer requires Pos and adds Vel,
\* the reader requires Vel
RegStaged ==
    [i \in 0 .. 1 |->
        IF i = 0 THEN SetRequire(NewSystem(FnAdd(Vel)), Pos)
        ELSE SetRequire(NewSystem(FnNop), Vel)]

\* two systems that declare disjoint writes (one stage), and a third that
\* requires what the first writes (the next stage)
RegDisjoint ==
    [i \in 0 .. 2 |->
        CASE i = 0 -> SetWrite(SetRequire(NewSystem(FnAdd(Vel)), Pos), Vel)
          [] i = 1 -> SetWrite(SetRequire(NewSystem(FnAdd(Health)), Pos), Health)
          [] i = 2 -> SetRequire(SetRequire(NewSystem(FnNop), Pos), Vel)]

\* a system whose function reports a failure, then one stage each for a
\* system that removes a component, a disabled system (ecs_sys_disable) and
\* a system that destroys what it matches
RegFail ==
    [i \in 0 .. 3 |->
        CASE i = 0 -> SetRequire(NewSystem(FnFail), Pos)
          [] i = 1 -> SetWrite(SetRequire(NewSystem(FnRemove(Health)), Pos), Pos)
          [] i = 2 -> [SetWrite(SetRequire(NewSystem(FnNop), Pos), Pos)
                          EXCEPT !.enabled = FALSE]
          [] i = 3 -> SetWrite(SetRequire(NewSystem(FnDestroy), Pos), Pos)]

\* test_selective_group_execution: systems in group A (1), in group B (2)
\* and in the default group, and a system of group A that was disabled
RegGroups ==
    [i \in 0 .. 3 |->
        CASE i = 0 -> SetGroup(SetRequire(NewSystem(FnNop), Pos), 1)
          [] i = 1 -> SetGroup(SetRequire(NewSystem(FnNop), Pos), 2)
          [] i = 2 -> SetRequire(NewSystem(FnNop), Pos)
          [] i = 3 -> [SetGroup(SetRequire(NewSystem(FnNop), Pos), 1)
                          EXCEPT !.enabled = FALSE]]

\* the benchmark's setup for ecs_run_system: one system, which destroys
\* every entity it is passed
RegSingle == [i \in 0 .. 0 |-> SetRequire(NewSystem(FnDestroy), Pos)]

Registries == {RegDeferred, RegStaged, RegDisjoint, RegFail, RegGroups,
               RegSingle}

\* the masks the test passes to ecs_progress: 0, GROUP_A, GROUP_B, both
GroupMasks == {0, 1, 2, 3}

\* lane counts given to ecs_set_task_callbacks (1: the ST path)
LaneCounts == {1, 2}

\* ECS_MT_MAX_TASKS on the scale of the model: the length of
\* task_args_storage, task_scratch and cmd_buffers, and the largest lane
\* count that ecs_set_task_callbacks lets through (1024 in the source, where
\* ECS_MAX_SYSTEMS is 256)
ECS_MT_MAX_TASKS == 2

\* if (task_count < 1) task_count = 1;
\* if (task_count > ECS_MT_MAX_TASKS) task_count = ECS_MT_MAX_TASKS;
ecs_set_task_callbacks(n) ==
    IF n < 1 THEN 1
    ELSE IF n > ECS_MT_MAX_TASKS THEN ECS_MT_MAX_TASKS ELSE n

\* ---------------------------------------------------------------------
\*  SpecSched: the registry API and the stage builder

InitSched ==
    /\ systems = <<>>
    /\ system_count = 0
    /\ schedule_dirty = TRUE
    /\ cached_stages = <<>>
    /\ cached_stage_count = 0
    /\ mut_count = 0
    /\ InitWorld(1)
    /\ IdlePool

NextSched ==
    \/ ecs_sys_create(FnNop)
    \/ \E s \in SysIds, c \in SchedComps : ecs_sys_require(s, c)
    \/ \E s \in SysIds, c \in SchedComps : ecs_sys_exclude(s, c)
    \/ \E s \in SysIds, c \in SchedComps : ecs_sys_read(s, c)
    \/ \E s \in SysIds, c \in SchedComps : ecs_sys_write(s, c)
    \/ \E s \in SysIds, d \in SysIds : ecs_sys_after(s, d)
    \/ \E s \in SysIds : ecs_sys_enable(s)
    \/ \E s \in SysIds : ecs_sys_disable(s)
    \/ ecs_dump_schedule

SpecSched == InitSched /\ [][NextSched]_vars

\* ---------------------------------------------------------------------
\*  SpecTick: ecs_progress and ecs_run_system over a registered world

InitTick ==
    \E reg \in Registries, lanes \in LaneCounts :
        /\ systems = reg
        /\ system_count = Cardinality(DOMAIN reg)
        /\ schedule_dirty = TRUE
        /\ cached_stages = <<>>
        /\ cached_stage_count = 0
        /\ mut_count = 0
        /\ InitWorld(lanes)
        /\ IdlePool

NextTick ==
    \/ \E group_mask \in GroupMasks : ecs_progress_begin(group_mask)
    \/ \E sys \in SysIds : ecs_run_system_begin(sys)
    \/ StageHead
    \/ InlineCall
    \/ InlineReturn
    \/ \E enqueue_ret \in EnqueueRets : Enqueue(enqueue_ret)
    \/ WaitReturn
    \/ StageSync
    \/ Done
    \/ \E k \in TaskIds : TaskStart(k)
    \/ \E k \in TaskIds : TaskOp(k)
    \/ \E k \in TaskIds : TaskStore(k)

SpecTick == InitTick /\ [][NextTick]_vars

\* ---------------------------------------------------------------------
\*  SpecPool: submitters, workers and the main thread over one pool

InitPool ==
    /\ systems = <<>>
    /\ system_count = 0
    /\ schedule_dirty = TRUE
    /\ cached_stages = <<>>
    /\ cached_stage_count = 0
    /\ mut_count = 0
    /\ InitWorld(1)
    /\ IdlePool

PoolStep(t) ==
    \/ \E fn \in Fns : tpool_enqueue_call(t, fn)
    \/ EnqInFlight(t)
    \/ TeLoadHead(t)
    \/ TeLoadTurn(t)
    \/ TeCas(t)
    \/ TeWrite(t)
    \/ TeStoreTurn(t)
    \/ TeReload(t)
    \/ EnqQueued(t)
    \/ EnqSignal(t)
    \/ InlineRun(t)
    \/ Run(t)
    \/ JdDec(t)
    \/ JdBroadcast(t)
    \/ TdLoadTail(t)
    \/ TdLoadTurn(t)
    \/ TdCas(t)
    \/ TdRead(t)
    \/ TdStoreTurn(t)
    \/ TdReload(t)
    \/ DeqDec(t)
    \/ WTop(t)
    \/ WChkStop(t)
    \/ WChkInFlight(t)
    \/ WLock(t)
    \/ WWhileStop(t)
    \/ WWhileQueued(t)
    \/ WWake(t)
    \/ WtTop(t)
    \/ WtQueued(t)
    \/ WtLock(t)
    \/ WtWhileInFlight(t)
    \/ WtWhileQueued(t)
    \/ WtWake(t)
    \/ DStop(t)
    \/ DBroadcast(t)
    \/ DJoin(t)

NextPool ==
    \/ \E t \in Threads : PoolStep(t) /\ UNCHANGED <<schedVars, tickVars, allocVars>>
    \/ (tpool_wait_call /\ UNCHANGED <<schedVars, tickVars, allocVars>>)
    \/ (tpool_destroy_call /\ UNCHANGED <<schedVars, tickVars, allocVars>>)

SpecPool == InitPool /\ [][NextPool]_vars

\* a thread that is inside a call (or is a worker) keeps being scheduled;
\* whether and when a thread makes its next call is left open
Running(t) ==
    /\ thr[t].pc # "idle"
    /\ PoolStep(t)
    /\ UNCHANGED <<schedVars, tickVars, allocVars>>

SpecPoolLive == SpecPool /\ \A t \in Threads : WF_vars(Running(t))

\* ---------------------------------------------------------------------
\*  SpecEntity: ecs_create / ecs_destroy / ecs_add from one thread, outside
\*  a tick, on the world ecs_new returns

InitEntity ==
    /\ systems = <<>>
    /\ system_count = 0
    /\ schedule_dirty = TRUE
    /\ cached_stages = <<>>
    /\ cached_stage_count = 0
    /\ mut_count = 0
    /\ pools = [c \in Comps |-> EmptyPool]
    /\ free_list_head = NoEntity
    /\ free_list_next = [e \in EntityIds |-> NoEntity]
    /\ task_count = 1
    /\ in_progress = 0
    /\ cmd_buffers = [t \in 0 .. 0 |-> EmptyCmdBuffer]
    /\ tasks = <<>>
    /\ drv = IdleDriver
    /\ ticks = 0
    /\ last_ret = 0
    /\ emitted = {}
    /\ applied = <<>>
    /\ seen = <<>>
    /\ obs = IdleObs(FALSE)
    /\ next_entity = 1
    /\ live = [e \in EntityIds |-> 0]
    /\ arena = NewArena
    /\ freed = <<>>
    /\ IdlePool

NextEntity ==
    \/ ecs_create
    \/ \E e \in EntityIds : ecs_destroy(e)
    \/ \E e \in EntityIds, c \in Comps : ecs_add(e, c)
    \/ \E e \in EntityIds, c \in Comps : ecs_remove(e, c)

SpecEntity == InitEntity /\ [][NextEntity]_vars

\* ---------------------------------------------------------------------
\*  SpecAlloc: two threads calling ecs_create and ecs_destroy at any time,
\*  outside a tick, on the world ecs_new returns or on that world after
\*  every ID was created and destroyed once (NumEntities down to 1)

Churned ==
    /\ free_list_head = 1
    /\ free_list_next = [e \in EntityIds |->
                            IF e = 0 THEN NoEntity
                            ELSE IF e = NumEntities THEN -1 ELSE e + 1]
    /\ next_entity = NumEntities + 1
    /\ freed = [i \in 1 .. NumEntities |-> i]

Fresh ==
    /\ free_list_head = -1
    /\ free_list_next = [e \in EntityIds |-> NoEntity]
    /\ next_entity = 1
    /\ freed = <<>>

InitAlloc ==
    /\ systems = <<>>
    /\ system_count = 0
    /\ schedule_dirty = TRUE
    /\ cached_stages = <<>>
    /\ cached_stage_count = 0
    /\ mut_count = 0
    /\ pools = [c \in Comps |-> EmptyPool]
    /\ Fresh \/ Churned
    /\ task_count = 1
    /\ in_progress = 0
    /\ cmd_buffers = [t \in 0 .. 0 |-> EmptyCmdBuffer]
    /\ tasks = <<>>
    /\ drv = IdleDriver
    /\ ticks = 0
    /\ last_ret = 0
    /\ emitted = {}
    /\ applied = <<>>
    /\ seen = <<>>
    /\ obs = IdleObs(FALSE)
    /\ live = [e \in EntityIds |-> 0]
    /\ arena = NewArena
    /\ tp = NewPool
    /\ thr = [t \in AllocThreads |-> NewCaller]
    /\ ran = <<>>

AllocStep(t) ==
    \/ CreateCall(t)
    \/ PopLoadHead(t)
    \/ PopLoadNext(t)
    \/ PopCas(t)
    \/ CreateFetchAdd(t)
    \/ \E e \in EntityIds : DestroyCall(t, e)
    \/ PushLoadHead(t)
    \/ PushStoreNext(t)
    \/ PushCas(t)

NextAlloc == \E t \in AllocThreads : AllocStep(t)

SpecAlloc == InitAlloc /\ [][NextAlloc]_vars

\* ---------------------------------------------------------------------
\*  SpecView: one ecs_progress over one system, up to the call of the
\*  system function in every task, for worlds in which each entity has one
\*  of the component sets of Archetypes, for the system's all_of / none_of
\*  drawn from ViewAllOf / ViewNoneOf and for 1 .. MaxLanes lanes

Archetypes == {{Pos}, {Vel}, {Pos, Vel}, {Pos, Vel, Health}}

ViewAllOf == {{}, {Pos}, {Pos, Vel}}

ViewNoneOf == {{}, {Vel}, {Health}}

\* ecs_create and ecs_add(e, c) for e = 1, 2, ... and every c of bits[e]
RECURSIVE BuildPool(_, _, _, _)
BuildPool(c, bits, e, pool) ==
    IF e > ViewEntities THEN pool
    ELSE BuildPool(c, bits, e + 1,
                   IF c \in bits[e] THEN PoolStore(ecs_pool_add(pool, e), e, e)
                   ELSE pool)

\* ecs_sys_create and an ecs_sys_require / ecs_sys_exclude per component
ViewSystem(all_of, none_of) ==
    [NewSystem(FnAdd(Health)) EXCEPT !.all_of = all_of, !.read = all_of,
                                     !.rw = all_of, !.none_of = none_of]

InitView ==
    \E bits \in [1 .. ViewEntities -> Archetypes],
       all_of \in ViewAllOf, none_of \in ViewNoneOf, lanes \in 1 .. MaxLanes :
        /\ systems = [i \in 0 .. 0 |-> ViewSystem(all_of, none_of)]
        /\ system_count = 1
        /\ schedule_dirty = TRUE
        /\ cached_stages = <<>>
        /\ cached_stage_count = 0
        /\ mut_count = 0
        /\ pools = [c \in Comps |->
                       BuildPool(c, bits, 1,
                                 [sparse |-> [e \in 0 .. ViewEntities |-> 0],
                                  dense |-> <<>>, data |-> <<>>])]
        /\ free_list_head = NoEntity
        /\ free_list_next = [e \in 0 .. ViewEntities |-> NoEntity]
        /\ task_count = lanes
        /\ in_progress = 0
        /\ cmd_buffers = [t \in 0 .. (lanes - 1) |-> EmptyCmdBuffer]
        /\ tasks = <<>>
        /\ drv = IdleDriver
        /\ ticks = 0
        /\ last_ret = 0
        /\ emitted = {}
        /\ applied = <<>>
        /\ seen = <<>>
        /\ obs = IdleObs(FALSE)
        /\ next_entity = ViewEntities + 1
        /\ live = [e \in 0 .. ViewEntities |-> IF e = 0 THEN 0 ELSE 1]
        /\ arena = NewArena
        /\ freed = <<>>
        /\ IdlePool

NextView ==
    \/ ecs_progress_begin(0)
    \/ StageHead
    \/ InlineCall
    \/ Enqueue(0)
    \/ \E k \in TaskIds : TaskStart(k)

SpecView == InitView /\ [][NextView]_vars

\* ---------------------------------------------------------------------
\*  SpecArena: deferred adds on one lane, stores through the returned
\*  pointers, and the sync at the end of the stage

NextArena ==
    \/ ecs_add_deferred
    \/ \E i \in 1 .. MaxAdds, v \in Payloads : StoreThrough(i, v)
    \/ ArenaSync

\* starts from the world of InitSched: no systems, one lane, a fresh arena
SpecArena == InitSched /\ [][NextArena]_vars

\* ---------------------------------------------------------------------
\*  SpecQueue: producers and consumers on a queue of RingCapacity slots

InitQueue ==
    /\ systems = <<>>
    /\ system_count = 0
    /\ schedule_dirty = TRUE
    /\ cached_stages = <<>>
    /\ cached_stage_count = 0
    /\ mut_count = 0
    /\ InitWorld(1)
    /\ \E lap \in StartLaps : tp = AfterLaps(queue_init(RingCapacity), lap)
    /\ thr = [t \in QueueThreads |-> NewThread(t)]
    /\ ran = [full |-> {}, put |-> {}, got |-> <<>>]

QueueStep(t) ==
    \/ try_enqueue_call(t)
    \/ TeLoadHead(t)
    \/ TeLoadTurn(t)
    \/ TeCas(t)
    \/ TeWrite(t)
    \/ TeStoreTurn(t)
    \/ TeReload(t)
    \/ try_dequeue_call(t)
    \/ TdLoadTail(t)
    \/ TdLoadTurn(t)
    \/ TdCas(t)
    \/ TdRead(t)
    \/ TdStoreTurn(t)
    \/ TdReload(t)

NextQueue ==
    \E t \in QueueThreads : QueueStep(t) /\ UNCHANGED <<schedVars, tickVars, allocVars>>

SpecQueue == InitQueue /\ [][NextQueue]_vars

\* ---------------------------------------------------------------------
\*  Claims about the stage builder (checked under SpecSched)

\* the conflict predicate as the specification words it, over read and write
SpecConflict(a, b) ==
    \/ a.write \cap (b.read \cup b.write) # {}
    \/ b.write \cap (a.read \cup a.write) # {}

\* C1: in every schedule the stage builder produces, two distinct systems
\* assigned to the same stage do not conflict (neither writes a component
\* the other reads or writes).
C1_ConflictFreeStages ==
    Scheduled =>
        \A i \in SysIds, j \in SysIds :
            (i # j /\ StageOf(i) = StageOf(j))
                => ~SpecConflict(systems[i], systems[j])

\* a built schedule in which two systems that read the same component (and
\* write nothing) share a stage
C1_Witness ==
    /\ Scheduled
    /\ \E k \in SysIds, l \in SysIds :
          /\ k # l
          /\ StageOf(k) = StageOf(l)
          /\ systems[k].read \cap systems[l].read # {}

\* C2: for every explicit edge after(i, j_dep) between two enabled systems
\* the schedule places i in a strictly later stage than j_dep.
C2_AfterRespected ==
    Scheduled =>
        \A i \in SysIds, j \in SysIds :
            (i # j /\ j \in systems[i].after
                   /\ systems[i].enabled /\ systems[j].enabled)
                => StageOf(i) > StageOf(j)

\* an explicit after(i, j) against a conflict edge i -> j (i registered
\* first): the two edges form a cycle
ConflictAfterCycle ==
    \E i \in SysIds, j \in SysIds :
        /\ i < j
        /\ SpecConflict(systems[i], systems[j])
        /\ j \in systems[i].after

\* C9: when an explicit after edge closes a cycle with a conflict-derived
\* edge, the stage builder signals the failure and produces no stage
\* assignment.
C9_CycleRejected ==
    (~schedule_dirty /\ ConflictAfterCycle) => cached_stage_count = 0

\* ---------------------------------------------------------------------
\*  Claims about the tick (checked under SpecTick)

\* the lane-buffer slots below count that hold the command id
Recorded(id) ==
    UNION {{<<t, n>> : n \in {m \in 1 .. cmd_buffers[t].count :
                                 cmd_buffers[t].commands[m].id = id}} :
           t \in DOMAIN cmd_buffers}

\* the commands stored by the call that is running or has just returned
ThisCall(id) ==
    id.tick = (IF drv.pc = "idle" THEN ticks - 1 ELSE ticks)

\* C3: every add, remove or destroy invoked during a tick is recorded in
\* exactly one lane's command buffer until the next sync and is applied
\* exactly once by it (never lost, never applied twice), also when several
\* tasks of one stage issue commands concurrently.
C3_RecordedOnceAppliedOnce ==
    ~obs.ever_failed =>
        \A id \in emitted :
            /\ applied[id] <= 1
            /\ applied[id] = 0 => Cardinality(Recorded(id)) = 1

\* C4: when a task of a stage has started, every task of the earlier stages
\* of the same progress call has returned and every deferred command those
\* tasks emitted has been applied.
C4_StageBarrier ==
    (obs.call = "progress" /\ drv.pc # "idle" /\ ~obs.ever_failed) =>
        \A k \in TaskIds :
            tasks[k].st # "queued" =>
                /\ \A j \in TaskIds :
                      tasks[j].stage < tasks[k].stage => tasks[j].st = "done"
                /\ \A id \in emitted :
                      (ThisCall(id) /\ id.stage < tasks[k].stage)
                          => applied[id] >= 1

\* entity e matches system b in the current pools
Matches(e, b) ==
    /\ ecs_entity_has_all_of(e, systems[b].all_of)
    /\ ~ecs_entity_has_any_of(e, systems[b].none_of)

\* C5: within one progress call, an entity that received component C through
\* a deferred add of an earlier-registered system is in the view of a
\* later-registered system that requires C (the consumer sees the entities
\* the adder just gave C).
C5_DeferredAddsSeen ==
    (drv.pc = "idle" /\ obs.call = "progress" /\ ~obs.ever_failed) =>
        \A id \in emitted, b \in SysIds :
            ( /\ ThisCall(id)
              /\ id.type = "ADD"
              /\ id.sys < b
              /\ id.component \in systems[b].all_of
              /\ systems[b].enabled
              /\ Matches(id.entity, b) )
                => id.entity \in seen[b]

\* C6: after progress returns, every command emitted during that tick has
\* been applied and no command is pending in a command buffer.
C6_NothingPendingAfterProgress ==
    (drv.pc = "idle" /\ obs.call = "progress" /\ ~obs.ever_failed) =>
        /\ \A id \in emitted : ThisCall(id) => applied[id] >= 1
        /\ \A t \in DOMAIN cmd_buffers : cmd_buffers[t].count = 0

\* C7: when a system function returned a non-zero status during progress, no
\* later stage is dispatched, the final drain runs and progress returns the
\* first such status, on the inline path and on the task path.
C7_SystemFailureReturned ==
    (obs.call = "progress" /\ obs.fn_fail # 0 /\ obs.enq_fail = 0) =>
        /\ ~obs.stage_after_fn_fail
        /\ drv.pc = "idle" => (last_ret = obs.fn_fail /\ obs.drained)

\* C8: when enqueue_cb returned a non-zero status during progress or
\* run_system, the call makes no further enqueue_cb call, dispatches no
\* further stage, goes to the final drain and returns that status.
C8_EnqueueFailureShortCircuits ==
    obs.enq_fail # 0 =>
        /\ ~obs.enq_after_fail
        /\ ~obs.stage_after_fail
        /\ drv.pc \in {"done", "idle"}
        /\ drv.pc = "done" => drv.ret = obs.enq_fail
        /\ drv.pc = "idle" =>
              (last_ret = obs.enq_fail /\ obs.drained /\ in_progress = 0)

\* a progress call returned the status of an enqueue_cb that failed after
\* other tasks had been accepted, and the final drain applied a command
C8_Witness ==
    /\ drv.pc = "idle"
    /\ obs.call = "progress"
    /\ obs.enq_fail # 0
    /\ last_ret = obs.enq_fail
    /\ Len(tasks) >= 1
    /\ \E id \in emitted : applied[id] = 1

\* ---------------------------------------------------------------------
\*  Claims about the job pool (checked under SpecPool)

\* no thread of the pool can take a step
Quiescent == ~ENABLED NextPool

\* C10: every job accepted by tpool_enqueue (fn not NULL, stop not set),
\* also when several threads submit concurrently, is executed exactly once:
\* no job runs twice, nothing runs that was not accepted, and when no thread
\* can move any more every accepted job has run.
C10_ExecutedExactlyOnce ==
    /\ \A job \in AllJobs \cup {NoJob} :
          /\ ran.count[job] <= 1
          /\ ran.count[job] = 1 => job \in ran.accepted
    /\ Quiescent => \A job \in ran.accepted : ran.count[job] = 1

\* the pool is destroyed after two submitters had a job accepted each, one
\* of which found the ring full and ran inline while the other went through
\* the ring
C10_Witness ==
    /\ thr[MainThread].pc = "destroyed"
    /\ \E j1 \in ran.accepted, j2 \in ran.accepted :
          /\ j1.by # j2.by
          /\ <<j1, "submitter">> \in ran.by
          /\ <<j2, "worker">> \in ran.by \/ <<j2, "waiter">> \in ran.by
    /\ \A job \in ran.accepted : ran.count[job] = 1


\* ---------------------------------------------------------------------
\*  Claims about tpool_wait and tpool_destroy (checked under SpecPool)

AllExecuted == \A job \in ran.accepted : ran.count[job] = 1

WaitReturned ==
    /\ thr[MainThread].phase = 1
    /\ thr[MainThread].pc = "idle"

\* C11: tpool_wait returns exactly from the load that finds in_flight = 0, so
\* a wait on an idle pool returns at its first step; and when it was called
\* with every submitter joined, every accepted job has been executed (once)
\* and in_flight is still 0 when it has returned.
C11_WaitReturnsWhenDone ==
    /\ [][(thr[MainThread].pc = "wt_top" /\ thr'[MainThread].pc # "wt_top")
             => ((thr'[MainThread].pc \in {"idle", "d_stop"})
                    <=> (tp.in_flight = 0))]_vars
    /\ []((WaitReturned /\ ran.quiet) => (AllExecuted /\ tp.in_flight = 0))

\* tpool_wait, called after the submitters were joined, has returned, and a
\* job it waited for was executed by the worker and another by the caller
C11_Witness ==
    /\ WaitReturned
    /\ ran.quiet
    /\ \E a, b \in ran.accepted :
           /\ <<a, "worker">> \in ran.by
           /\ <<b, "waiter">> \in ran.by

InWait == thr[MainThread].pc \notin {"idle", "d_stop", "d_broadcast", "d_join",
                                      "destroyed"}

\* C12: a call of tpool_wait (also the one inside tpool_destroy) returns:
\* whatever the submitters and the worker do meanwhile, as long as every
\* thread that is inside a call keeps running, the waiting thread leaves
\* tpool_wait.
C12_WaitEventuallyReturns == InWait ~> ~InWait

\* the waiter went to sleep on cv_done while a job was in flight
C12_Witness ==
    /\ thr[MainThread].pc = "wt_sleep"
    /\ MainThread \in tp.cv_done
    /\ tp.in_flight > 0

\* the tpool_enqueue call that submitted job is still running
InCall(job) == thr[job.by].n = job.n /\ thr[job.by].pc # "idle"

\* C13: a submitter inside tpool_enqueue can always take its next step unless
\* that step is the lock of the mutex around a signal or broadcast (it never
\* waits for room in the ring); a job try_enqueue found no room for is, until
\* its fn(arg) runs on the submitter, counted in in_flight, and from then on
\* has been executed exactly once, by the submitting thread, before
\* tpool_enqueue returns; in_flight is decremented only after that.
C13_FullRingRunsInline ==
    /\ \A t \in Submitters :
           thr[t].pc # "idle"
           => \/ ENABLED Running(t)
              \/ /\ thr[t].pc \in {"enq_signal", "jd_broadcast"}
                 /\ tp.mtx # NoOwner
    /\ \A job \in ran.full :
           IF InCall(job) /\ thr[job.by].pc = "inline_run"
           THEN /\ ran.count[job] = 0
                /\ tp.in_flight >= 1
           ELSE /\ ran.count[job] = 1
                /\ <<job, "submitter">> \in ran.by
                /\ \A role \in {"worker", "waiter"} : <<job, role>> \notin ran.by
                /\ (InCall(job) /\ thr[job.by].pc = "jd_dec") => tp.in_flight >= 1
    /\ \A t \in Submitters :
           thr[t].pc = "inline_run" => thr[t].job \in ran.full

\* a tpool_enqueue call that found the ring full has returned
C13_Witness ==
    \E job \in ran.full :
        /\ ~InCall(job)
        /\ ran.count[job] = 1

\* C14: tpool_destroy (called when the submitters are joined) stores stop
\* only after every accepted job has been executed and in_flight is 0, and
\* when it has returned every accepted job has been executed once and every
\* worker has exited.
C14_DestroyDrains ==
    /\ tp.stop => (AllExecuted /\ tp.in_flight = 0)
    /\ thr[MainThread].pc \in {"d_broadcast", "d_join", "destroyed"} => tp.stop
    /\ thr[MainThread].pc = "destroyed"
           => (AllExecuted /\ \A w \in Workers : thr[w].pc = "exited")

\* tpool_destroy has returned; jobs were still pending when tpool_wait was
\* called before it, and both the worker and the main thread ran one
C14_Witness ==
    /\ thr[MainThread].pc = "destroyed"
    /\ ~ran.quiet
    /\ \E a, b \in ran.accepted :
           /\ <<a, "worker">> \in ran.by
           /\ <<b, "waiter">> \in ran.by

\* ---------------------------------------------------------------------
\*  Claims about the queue (checked under SpecQueue)

GotPairs == DOMAIN ran.got

SlotOf(ticket) == ticket % tp.capacity

\* the producer that took the ticket has not copied its item in yet
Writing(ticket) ==
    \E t \in Producers : thr[t].pc = "te_write" /\ thr[t].idx = ticket

\* a consumer took the ticket and has not copied the item out yet
Reading(ticket) ==
    \E t \in Consumers : thr[t].pc = "td_read" /\ thr[t].idx = ticket

\* C15: every <<ticket, item>> try_dequeue copied out was copied out once; no
\* item came out under two tickets and no ticket gave two items; what came
\* out had been put by a producer whose copy into the slot was complete;
\* consumers never hold more tickets than producers (no dequeue from an
\* empty ring); and an item that was put and has not come out yet is still
\* being written or sits in its slot with its ticket not yet consumed.
C15_EachItemDequeuedOnce ==
    /\ \A g \in GotPairs : ran.got[g] = 1
    /\ \A g, h \in GotPairs : (g[1] = h[1] \/ g[2] = h[2]) => g = h
    /\ \A g \in GotPairs :
           \E q \in ran.put : q[2] = g[2] /\ ~Writing(q[1])
    /\ tp.tail <= tp.head
    /\ \A q \in ran.put :
           \/ \E g \in GotPairs : g[2] = q[2]
           \/ Writing(q[1])
           \/ /\ tp.data[SlotOf(q[1])] = q[2]
              /\ (tp.tail <= q[1] \/ Reading(q[1]))

\* both producers have put items, some have come out, and the two consumers
\* hold tickets at the same time
C15_Witness ==
    /\ \A t \in Producers : \E q \in ran.put : q[2].by = t
    /\ GotPairs # {}
    /\ \A t \in Consumers : thr[t].pc \in {"td_read", "td_store_turn"}

\* C16: the item try_dequeue copies out under ticket t is the item the
\* producer holding ticket t put; tickets are handed out in order without
\* gaps on both sides, so items leave in the order of their tickets, lap
\* after lap of the ring.
C16_FifoByTicket ==
    /\ GotPairs \subseteq ran.put
    /\ \A q \in ran.put :
           /\ q[1] < tp.head
           /\ \A k \in q[1] .. (tp.head - 1) : \E r \in ran.put : r[1] = k
    /\ \A g \in GotPairs : g[1] < tp.tail
    /\ \A q \in ran.put :
           q[1] < tp.tail => (q \in GotPairs \/ Reading(q[1]))
    /\ \A q, r \in ran.put :
           (q[2].by = r[2].by /\ q[2].n < r[2].n) => q[1] < r[1]

\* items came out in two different laps of the ring, the later one after the
\* ring had been filled and emptied twice
C16_Witness ==
    \E g, h \in GotPairs :
        /\ g[1] \div tp.capacity = 1
        /\ h[1] \div tp.capacity = 2
        /\ SlotOf(g[1]) # SlotOf(h[1])

\* C17: every store to a slot's turn adds 1; the producer holding ticket h
\* writes the slot while its turn is the even 2 * (h / capacity) and the
\* consumer holding ticket t reads it while its turn is the odd
\* 2 * (t / capacity) + 1.
C17_TurnMonotone ==
    /\ [][\A i \in DOMAIN tp.turn :
             tp'.turn[i] \in {tp.turn[i], tp.turn[i] + 1}]_vars
    /\ [](\A t \in Producers :
             thr[t].pc \in {"te_write", "te_store_turn"}
             => tp.turn[SlotOf(thr[t].idx)] = 2 * (thr[t].idx \div tp.capacity))
    /\ [](\A t \in Consumers :
             thr[t].pc \in {"td_read", "td_store_turn"}
             => tp.turn[SlotOf(thr[t].idx)]
                    = 2 * (thr[t].idx \div tp.capacity) + 1)

\* a slot has been through a write and a read in two laps
C17_Witness ==
    /\ \E g, h \in GotPairs : g[1] + tp.capacity = h[1]
    /\ \E i \in DOMAIN tp.turn : tp.turn[i] >= 4

\* C18: the ring never holds more than capacity tickets not yet consumed;
\* while it holds capacity of them no producer takes a ticket; the step that
\* reports "full" changes nothing in the queue; and when fewer than capacity
\* are held and no consumer is inside try_dequeue, the slot of the next
\* ticket is writable, so the next try_enqueue succeeds.
C18_FullReported ==
    /\ [](tp.head - tp.tail <= tp.capacity)
    /\ [][tp.head - tp.tail = tp.capacity => tp'.head = tp.head]_vars
    /\ [][ran'.full # ran.full => tp' = tp]_vars
    /\ []((/\ tp.head - tp.tail < tp.capacity
            /\ \A t \in Consumers : thr[t].pc = "idle")
           => tp.turn[SlotOf(tp.head)] = EnqueueWant(tp.head))

\* a producer was told "full", its item never entered the ring, and a later
\* call of the same producer took a ticket
C18_Witness ==
    /\ \E f \in ran.full, q \in ran.put :
           /\ q[2].by = f.by
           /\ q[2].n > f.n
    /\ \E f \in ran.full : \A q \in ran.put : q[2] # f

\* ---------------------------------------------------------------------
\*  Claims about the data arena (checked under SpecArena)

\* C19: until the sync, the pointer each deferred add returned points into a
\* live block, is the pointer stored in the add's command, and the bytes
\* behind it are zero until the system stores into them and then what it
\* stored; what the sync copies for the command is exactly those bytes.
C19_StagedBytesValid ==
    /\ arena.pc = "tick" =>
           \A i \in 1 .. Len(arena.ret) :
               /\ arena.blocks[arena.ret[i].block].live
               /\ arena.commands[i].component_data = arena.ret[i]
               /\ arena.blocks[arena.ret[i].block].bytes[arena.ret[i].offset + 1]
                      = arena.wrote[i]
    /\ arena.pc = "synced" =>
           \A i \in 1 .. Len(arena.ret) : arena.copied[i] = arena.wrote[i]

\* ---------------------------------------------------------------------
\*  Claims about the entity allocator (checked under SpecEntity)

\* the IDs on the free list, from head h, at most n links followed
RECURSIVE FreeIds(_, _)
FreeIds(h, n) ==
    IF h = -1 \/ n = 0 THEN {}
    ELSE {h} \cup FreeIds(free_list_next[h], n - 1)

\* C20: for every sequence of ecs_create and ecs_destroy (of live entities)
\* outside a tick, no ID is live twice: ecs_create never returns an ID that
\* an earlier ecs_create returned and that was not destroyed since. 0 is
\* never returned, and the free list holds exactly the IDs handed out before
\* that are not live.
C20_LiveIdsUnique ==
    /\ \A e \in DOMAIN live : live[e] <= 1
    /\ live[0] = 0
    /\ FreeIds(free_list_head, NumEntities + 1)
           = {e \in 1 .. (next_entity - 1) : live[e] = 0}

\* every ID is live, and one of them was destroyed while another was on the
\* free list and has been returned by ecs_create again since
C20_Witness ==
    /\ \A e \in 1 .. NumEntities : live[e] = 1
    /\ \E e \in 1 .. NumEntities : free_list_next[e] \in 1 .. NumEntities

\* ---------------------------------------------------------------------
\*  Claims about the allocator under concurrent callers (SpecAlloc)

\* the free list ends within n links from h
RECURSIVE ChainEnds(_, _)
ChainEnds(h, n) ==
    IF h = -1 THEN TRUE
    ELSE IF n = 0 THEN FALSE
    ELSE ChainEnds(free_list_next[h], n - 1)

AllCallersIdle == \A t \in AllocThreads : thr[t].pc = "idle"

\* C21: with ecs_create called from several threads at any time, no ID is
\* held by two callers at once (an ID is returned again only after it was
\* destroyed), 0 is never returned, and the free list stays well-formed: it
\* ends, holds no live ID, and when no call is running it holds exactly the
\* IDs handed out before that are not live.
C21_ConcurrentCreateSafe ==
    /\ \A e \in DOMAIN live : live[e] <= 1
    /\ live[0] = 0
    /\ ChainEnds(free_list_head, NumEntities)
    /\ \A e \in FreeIds(free_list_head, NumEntities) : live[e] = 0
    /\ AllCallersIdle =>
           FreeIds(free_list_head, NumEntities)
               = {e \in 1 .. (next_entity - 1) : live[e] = 0}

\* ---------------------------------------------------------------------
\*  Claims about ecs_create (checked under SpecEntity)

\* C22: every ID ecs_create returns is the most recently destroyed ID that
\* was not handed out again whenever such an ID exists, and otherwise the
\* value of the counter next_entity, which then grows by one and never
\* shrinks; the returned ID is at least 1, never 0.
C22_CreateRecyclesFirst ==
    [][ /\ next_entity' >= next_entity
        /\ \A e \in EntityIds :
              live'[e] > live[e] =>
                  /\ e >= 1
                  /\ IF freed # <<>>
                     THEN e = Head(freed) /\ next_entity' = next_entity
                     ELSE e = next_entity /\ next_entity' = next_entity + 1
      ]_vars

\* an ID is live that was destroyed after the ID now at the head of the free
\* list and has been returned by ecs_create again, with every fresh ID
\* handed out before
C22_Witness ==
    /\ next_entity = NumEntities + 1
    /\ freed # <<>>
    /\ \E e \in 1 .. NumEntities :
          /\ live[e] = 1
          /\ free_list_next[e] = Head(freed)

\* ---------------------------------------------------------------------
\*  Claims about the two paths of ecs_add / ecs_remove / ecs_destroy
\*  (checked under SpecTick)

\* task k is at a call of ecs_add / ecs_remove / ecs_destroy and this step
\* is the call's (a system of kind add_missing makes no call for an entity
\* that has the component)
CallStep(k) ==
    /\ tasks[k].st = "run"
    /\ k \in DOMAIN tasks'
    /\ tasks'[k] # tasks[k]
    /\ LET fn == systems[tasks[k].sys_index].fn
       IN  ~(fn.kind = "add_missing"
             /\ ecs_has(tasks[k].view[tasks[k].pos], fn.comp))

\* task k is inside the deferred path and this step stores its command
StoreStep(k) ==
    /\ tasks[k].st = "emit"
    /\ k \in DOMAIN tasks'
    /\ tasks'[k] # tasks[k]

\* the pools after the step show the immediate effect of the call
ImmediateEffect(k) ==
    LET fn == systems[tasks[k].sys_index].fn
        e == tasks[k].view[tasks[k].pos]
    IN  CASE CmdType(fn) = "ADD" -> ecs_ss_has(pools'[fn.comp], e)
          [] CmdType(fn) = "REMOVE" -> ~ecs_ss_has(pools'[fn.comp], e)
          [] CmdType(fn) = "DESTROY" ->
                 /\ \A c \in Comps : ~ecs_ss_has(pools'[c], e)
                 /\ free_list_head' = e

\* only the calling lane's buffer changed and it holds the call's command
CommandAppended(k) ==
    LET fn == systems[tasks[k].sys_index].fn
        e == tasks[k].view[tasks[k].pos]
        lane == ecs_current_cmd_buffer(tasks[k].task_index)
        cb == cmd_buffers'[lane]
    IN  /\ \A t \in DOMAIN cmd_buffers : t # lane => cmd_buffers'[t] = cmd_buffers[t]
        /\ cb.count >= 1
        /\ cb.commands[cb.count].type = CmdType(fn)
        /\ cb.commands[cb.count].entity = e
        /\ cb.commands[cb.count].component = fn.comp

PoolsAndFreeListKept ==
    /\ pools' = pools
    /\ free_list_head' = free_list_head
    /\ free_list_next' = free_list_next

BitSet(n, b) == (n \div (2 ^ b)) % 2 = 1

\* the systems the claim selects for a mask
Selected(group_mask) ==
    {s \in SysIds :
        /\ systems[s].enabled
        /\ IF group_mask = 0 THEN systems[s].group = 0
           ELSE \E b \in 0 .. 7 : BitSet(systems[s].group, b)
                                  /\ BitSet(group_mask, b)}

\* the systems the running call has created a task for
Dispatched == {tasks[k].sys_index : k \in TaskIds}

\* C24: in ecs_progress(group_mask) only systems that are enabled and whose
\* group matches the mask (group 0 for mask 0, a common bit otherwise) get a
\* task or have their function called, and when the stage loop has ended
\* without a failure every such system has been given its tasks.
C24_GroupSelectsSystems ==
    (obs.call = "progress" /\ drv.pc # "idle") =>
        /\ Dispatched \subseteq Selected(drv.group_mask)
        /\ \A s \in SysIds : seen[s] # {} => s \in Selected(drv.group_mask)
        /\ (drv.pc = "done" /\ drv.ret = 0 /\ obs.enq_fail = 0)
              => Dispatched = Selected(drv.group_mask)

\* ecs_progress(GROUP_A | GROUP_B) has dispatched the two enabled systems of
\* groups A and B and neither the default-group system nor the disabled
\* system of group A
C24_Witness ==
    /\ obs.call = "progress"
    /\ drv.pc = "done"
    /\ drv.group_mask = 3
    /\ Cardinality(Dispatched) = 2
    /\ \E s \in SysIds \ Dispatched : systems[s].enabled /\ systems[s].group = 0
    /\ \E s \in SysIds \ Dispatched : ~systems[s].enabled /\ systems[s].group = 1

\* ---------------------------------------------------------------------
\*  Claims about slices and views (checked under SpecView)

\* the driver pool's dense array for the system (empty without a driver)
DriverDense ==
    LET drive == ecs_pick_driver(systems[0].all_of)
    IN  IF drive = NoDriver THEN <<>> ELSE pools[drive].dense

\* the lanes a system is split into: task_count on the MT path, 1 on the ST
\* path
LanesUsed == IF mt THEN task_count ELSE 1

\* the dense indices of lane's slice as the claim gives them
SliceOf(n, lane, lanes) ==
    {i \in 0 .. (n - 1) :
        /\ (n * lane) \div lanes <= i
        /\ i < (n * (lane + 1)) \div lanes}

\* the components entity e has
BitsOf(e) == {c \in Comps : ecs_ss_has(pools[c], e)}

MatchesSystem(e) ==
    /\ systems[0].all_of \subseteq BitsOf(e)
    /\ BitsOf(e) \cap systems[0].none_of = {}

\* every task of the call has been created and has built its view
AllViewsBuilt ==
    /\ drv.pc \in {"wait", "inline_wait"}
    /\ \A k \in TaskIds : tasks[k].st # "queued"

\* the subsequence of dense at the indices of slice that match
RECURSIVE MatchingIn(_, _, _)
MatchingIn(dense, slice, i) ==
    IF i >= Len(dense) THEN <<>>
    ELSE (IF i \in slice /\ MatchesSystem(dense[i + 1])
          THEN <<dense[i + 1]>> ELSE <<>>)
         \o MatchingIn(dense, slice, i + 1)

\* C25: the slices the tasks of a system compute, [n*lane/L, n*(lane+1)/L)
\* for lane 0 .. L-1, put every index of the driver pool's dense array into
\* exactly one lane; the tasks of the system carry the lanes 0 .. L-1, one
\* each; so once all tasks have built their views every matching entity is
\* in the view of exactly one task, once.
C25_SlicesPartition ==
    LET n == Len(DriverDense)
        L == LanesUsed
    IN  /\ \A i \in 0 .. (n - 1) :
              Cardinality({lane \in 0 .. (L - 1) :
                              /\ SliceStart(n, lane, L) <= i
                              /\ i < SliceEnd(n, lane, L)}) = 1
        /\ \A k \in TaskIds :
              /\ tasks[k].slice_count = L
              /\ tasks[k].slice_index \in 0 .. (L - 1)
              /\ \A j \in TaskIds : j # k => tasks[j].slice_index # tasks[k].slice_index
        /\ AllViewsBuilt =>
              /\ Len(tasks) = L
              /\ \A i \in 0 .. (n - 1) :
                    MatchesSystem(DriverDense[i + 1]) =>
                        Cardinality({<<k, m>> \in TaskIds \X (1 .. ViewEntities) :
                                        /\ m <= Len(tasks[k].view)
                                        /\ tasks[k].view[m] = DriverDense[i + 1]}) = 1

\* three lanes over four matching entities: every task has been handed a
\* non-empty view and the views differ in length
C25_Witness ==
    /\ AllViewsBuilt
    /\ LanesUsed = 3
    /\ Len(DriverDense) = ViewEntities
    /\ \A k \in TaskIds : tasks[k].st = "run"
    /\ \E j \in TaskIds, k \in TaskIds : Len(tasks[j].view) < Len(tasks[k].view)

\* C26: the view a task passes to the system function is exactly the
\* entities of its slice of the driver pool that have every component of
\* all_of and none of none_of, in dense order; a task whose slice holds no
\* such entity does not call the function.
C26_ViewIsExactMatch ==
    \A k \in TaskIds :
        LET n == Len(DriverDense)
            want == MatchingIn(DriverDense,
                               SliceOf(n, tasks[k].slice_index,
                                       tasks[k].slice_count), 0)
        IN  /\ tasks[k].st = "run" => tasks[k].view = want
            /\ tasks[k].st = "done" => want = <<>>

\* a task passed a non-empty view although its slice also holds an entity
\* that lacks a required component and one that has an excluded component
C26_Witness ==
    \E k \in TaskIds :
        LET slice == SliceOf(Len(DriverDense), tasks[k].slice_index,
                             tasks[k].slice_count)
        IN  /\ tasks[k].st = "run"
            /\ tasks[k].view # <<>>
            /\ \E i \in slice :
                  ~(systems[0].all_of \subseteq BitsOf(DriverDense[i + 1]))
            /\ \E i \in slice :
                  /\ systems[0].all_of \subseteq BitsOf(DriverDense[i + 1])
                  /\ BitsOf(DriverDense[i + 1]) \cap systems[0].none_of # {}

\* ---------------------------------------------------------------------
\*  Claims about the order and the caching of stages (SpecSched)

\* a system that writes c and one that only reads it
WriterOf(rec, c) == c \in rec.write

ReaderOf(rec, c) == c \in rec.read /\ c \notin rec.write

\* C27: in a built schedule, of two systems that conflict the one registered
\* earlier is in a strictly earlier stage; with two systems, one writing a
\* component and the other reading it, the schedule has two stages, the
\* first holding the system registered first and the second the other.
C27_ConflictOrderedByRegistration ==
    Scheduled =>
        /\ \A i \in SysIds, j \in SysIds :
              (i < j /\ SpecConflict(systems[i], systems[j]))
                  => StageOf(i) < StageOf(j)
        /\ (/\ system_count = 2
            /\ \E c \in Comps :
                  \/ WriterOf(systems[0], c) /\ ReaderOf(systems[1], c)
                  \/ ReaderOf(systems[0], c) /\ WriterOf(systems[1], c))
              => /\ cached_stage_count = 2
                 /\ cached_stages[0] = <<0>>
                 /\ cached_stages[1] = <<1>>

\* registration order (R, W): the reader of Pos was registered first, the
\* writer second, both require Pos, and the schedule has been built
C27_Witness ==
    /\ Scheduled
    /\ system_count = 2
    /\ ReaderOf(systems[0], Pos) /\ Pos \in systems[0].all_of
    /\ WriterOf(systems[1], Pos) /\ Pos \in systems[1].all_of
    /\ cached_stage_count = 2

\* the schedule the stage builder computes from the current registry
FreshSchedule == ecs_build_stages(systems, system_count)

\* C28: the cached stages change only in a step that found schedule_dirty
\* set, every step that changes the registry (create, require, exclude,
\* read, write, after, enable, disable) leaves schedule_dirty set, and so
\* whenever schedule_dirty is clear, as it is once a tick has passed its
\* rebuild, the cached schedule is the one the stage builder computes from
\* the current registry.
C28_CachedScheduleCurrent ==
    /\ [](~schedule_dirty =>
            /\ cached_stage_count = FreshSchedule.count
            /\ cached_stages = FreshSchedule.stages)
    /\ [][ /\ (<<cached_stages, cached_stage_count>>' # <<cached_stages, cached_stage_count>>)
               => (schedule_dirty /\ ~schedule_dirty')
           /\ (<<systems, system_count>>' # <<systems, system_count>>)
               => schedule_dirty' ]_vars

\* a schedule of one stage was cached, the registry was changed since, the
\* stage builder would now give two stages, and schedule_dirty is set
C28_Witness ==
    /\ schedule_dirty
    /\ system_count = 2
    /\ cached_stage_count = 1
    /\ Len(cached_stages[0]) = 2
    /\ FreshSchedule.count = 2

\* ---------------------------------------------------------------------
\*  Claim about ecs_run_system (SpecTick)

\* the running call has exactly one active system, s: ecs_run_system(s) of an
\* enabled s, or ecs_progress with a mask that selects s alone
OneActive(s) ==
    \/ drv.call = "run_system" /\ drv.active = <<s>>
    \/ drv.call = "progress" /\ Selected(drv.group_mask) = {s}

\* the step that applies what the one system's tasks deferred: the
\* end-of-stage sync of a tick, or label done when the stage loop was not
\* entered or was left with a status
OutcomeStep ==
    \/ drv.pc = "sync"
    \/ drv.pc = "done" /\ (drv.call = "run_system" \/ drv.ret # 0)

\* the entities that match system s
MatchSet(s) ==
    {e \in EntityIds :
        /\ systems[s].all_of # {}
        /\ systems[s].all_of \subseteq BitsOf(e)
        /\ BitsOf(e) \cap systems[s].none_of = {}}

\* what the function of s does to one entity, done on the spot
OpNow(w, fn, e) ==
    CASE fn.kind = "nop" -> w
      [] fn.kind = "add_missing" /\ ecs_has(e, fn.comp) -> w
      [] fn.kind = "destroy" -> DestroyNow(w, e)
      [] fn.kind = "remove" -> RemoveNow(w, e, fn.comp)
      [] OTHER -> AddNow(w, e, fn.comp, fn.val)

RECURSIVE OpsInOrder(_, _, _, _)
OpsInOrder(w, fn, view, i) ==
    IF i > Len(view) THEN w
    ELSE OpsInOrder(OpNow(w, fn, view[i]), fn, view, i + 1)

\* the world after s has been run over every matching entity, in the order
\* of the driver pool
OutcomeOf(s) == OpsInOrder(World, systems[s].fn, TaskView(systems[s], 0, 1), 1)

\* no earlier call was cut short by a refused enqueue, whose tasks may have
\* left commands behind after its return
CleanStart == ~obs.ever_failed

\* C29: a call with exactly one active system s in which every enqueue was
\* accepted behaves the same whether it is ecs_run_system(s) or a tick: when
\* it comes to apply the commands every task has returned, s has been passed
\* exactly the matching entities and in_progress was set; applying the
\* commands gives (when no earlier call left commands behind) the world
\* that running s over the matching entities gives; and at the return
\* in_progress is clear, every command buffer is empty and the world is
\* that outcome.
C29_RunSystemIsOneSystemTick ==
    [][ \A s \in SysIds :
          (OneActive(s) /\ obs.enq_fail = 0) =>
              /\ OutcomeStep =>
                    /\ NoLiveTasks
                    /\ in_progress = 1
                    /\ seen[s] = MatchSet(s)
                    /\ \A r \in SysIds : r # s => seen[r] = {}
                    /\ CleanStart =>
                          /\ pools' = OutcomeOf(s).pools
                          /\ free_list_head' = OutcomeOf(s).head
                          /\ free_list_next' = OutcomeOf(s).next
              /\ (drv.pc = "done" /\ ~OutcomeStep) =>
                    <<pools, free_list_head, free_list_next>>'
                        = <<pools, free_list_head, free_list_next>>
              /\ drv.pc = "done" =>
                    /\ drv'.pc = "idle"
                    /\ in_progress' = 0
                    /\ last_ret' = drv.ret
                    /\ \A t \in DOMAIN cmd_buffers :
                          /\ cmd_buffers'[t].count = 0
                          /\ cmd_buffers'[t].data_offset = 0 ]_vars

\* ecs_run_system on two lanes has returned: both tasks ran the system, the
\* commands they deferred were applied at the return and took every entity
\* out of the Pos pool
C29_Witness ==
    /\ drv.pc = "idle"
    /\ obs.call = "run_system"
    /\ task_count = 2
    /\ Len(tasks) = 2
    /\ \A e \in 1 .. NumEntities : e \in seen[0] \/ (1 \in DOMAIN seen /\ e \in seen[1])
    /\ \E c \in emitted : c.tick = ticks - 1 /\ applied[c] = 1
    /\ Len(pools[Pos].dense) < NumEntities

\* ---------------------------------------------------------------------
\*  Claim about the sparse set of a pool (SpecEntity)

\* the entities pool holds, by its sparse array
Present(pool) == {e \in DOMAIN pool.sparse : pool.sparse[e] # 0}

\* C30: in every pool, after any adds, removes and destroys, each present
\* entity e has dense[sparse[e]-1] = e (dense counted from 0), the dense
\* array has as many entries as there are present entities, as has the data
\* array, each present entity is in exactly one dense slot and no slot
\* holds an entity that is not present.
C30_SparseDenseConsistent ==
    \A c \in Comps :
        LET pool == pools[c]
            count == Len(pool.dense)
        IN  /\ \A e \in Present(pool) :
                  /\ pool.sparse[e] \in 1 .. count
                  /\ pool.dense[(pool.sparse[e] - 1) + 1] = e
                  /\ Cardinality({i \in 1 .. count : pool.dense[i] = e}) = 1
            /\ count = Cardinality(Present(pool))
            /\ Len(pool.data) = count
            /\ \A i \in 1 .. count : pool.dense[i] \in Present(pool)

\* entity 1 was removed from the Pos pool while entity 2 was behind it, so 2
\* was moved into the first slot, and 1 was added again
C30_Witness ==
    /\ pools[Pos].dense = <<2, 1>>
    /\ pools[Pos].sparse[2] = 1
    /\ pools[Pos].sparse[1] = 2
    /\ pools[Pos].data = <<2, 1>>

\* ---------------------------------------------------------------------
\*  Claim about ecs_pool_remove (SpecEntity)

\* the payload pool holds for a present entity
PayloadOf(pool, e) == pool.data[pool.sparse[e]]

\* C31: for every pool the program reaches and every entity e,
\* ecs_pool_remove returns 0 and leaves the pool as it is when e is absent;
\* when e is present it returns 1, e is absent afterwards, the entity of
\* the last dense slot has taken e's slot, and every other present entity
\* is still present with the payload it had, data[i] being the payload of
\* dense[i]. Every step of the program that takes an entity out of a pool
\* leaves the other entities and their payloads so.
C31_RemoveFrame ==
    /\ [](\A c \in Comps, e \in EntityIds :
            LET pool == pools[c]
                after == ecs_pool_remove(pool, e)
                n == Len(pool.dense)
            IN  IF e \notin Present(pool)
                THEN ecs_pool_remove_ret(pool, e) = 0 /\ after = pool
                ELSE /\ ecs_pool_remove_ret(pool, e) = 1
                     /\ Present(after) = Present(pool) \ {e}
                     /\ Len(after.dense) = n - 1
                     /\ Len(after.data) = n - 1
                     /\ pool.sparse[e] < n =>
                           after.dense[pool.sparse[e]] = pool.dense[n]
                     /\ \A f \in Present(after) :
                           /\ after.dense[after.sparse[f]] = f
                           /\ PayloadOf(after, f) = PayloadOf(pool, f))
    /\ [][\A c \in Comps :
            Present(pools'[c]) \subseteq Present(pools[c]) =>
                \A f \in Present(pools'[c]) :
                    PayloadOf(pools'[c], f) = PayloadOf(pools[c], f)]_vars

\* entity 1 was taken out of the Vel pool while entity 2 was in the last
\* slot, so 2 and its payload were moved into the first slot; 1 was added
\* again behind it
C31_Witness ==
    /\ pools[Vel].dense = <<2, 1>>
    /\ pools[Vel].data = <<2, 1>>
    /\ pools[Vel].sparse[2] = 1

\* ---------------------------------------------------------------------
\*  Claims about lanes, syncs and task storage (SpecTick)

\* the task is inside the system function, where it may append a command
InsideFn(k) == tasks[k].st \in {"run", "emit"}

\* the command buffer the calls of task k are routed to
BufferOf(k) == ecs_current_cmd_buffer(tasks[k].task_index)

\* C32: in the MT path of ecs_progress every task inside the system
\* function has its calls routed to the command buffer of its own lane
\* (its slice index), and no two tasks of one stage that are inside the
\* system function at the same time are routed to the same buffer.
C32_OwnLaneBuffer ==
    (mt /\ drv.call = "progress") =>
        \A k \in TaskIds :
            InsideFn(k) =>
                /\ BufferOf(k) = tasks[k].slice_index
                /\ \A j \in TaskIds :
                      (j # k /\ InsideFn(j) /\ tasks[j].stage = tasks[k].stage)
                          => BufferOf(j) # BufferOf(k)

\* C33: whenever ecs_progress or ecs_run_system is about to run ecs_sync (at
\* the end of a stage or at label done, however it got there), every task
\* the call has handed to enqueue_cb has returned.
C33_SyncAfterTasks ==
    drv.pc \in {"sync", "done"} => \A k \in TaskIds : tasks[k].st = "done"

\* ---------------------------------------------------------------------
\*  Claim about the stage of each system (SpecSched)

\* the predecessors of system i: the sources of the edges into i, which run
\* from an earlier registered system p to i when the two conflict or when
\* i's after set names p
PredsOf(i) ==
    {p \in SysIds :
        /\ p < i
        /\ \/ SpecConflict(systems[p], systems[i])
           \/ p \in systems[i].after}

NoEnqueueRunning == \A s \in Submitters : thr[s].pc = "idle"

\* C35: a thread blocked on cv_done in tpool_wait is released when queued
\* becomes non-zero: once the tpool_enqueue calls that put jobs into the
\* ring have returned, no thread is still blocked on cv_done while the ring
\* holds a job.
C35_WaiterReleasedOnEnqueue ==
    (NoEnqueueRunning /\ tp.queued # 0) => tp.cv_done = {}

\* the job sits in a slot of the ring
InRing(job) ==
    \E i \in DOMAIN tp.data : tp.data[i] = job /\ tp.turn[i] % 2 = 1

\* a submitter that has put its job into the ring and is going to signal
\* cv_work: it is at the signal, or at the fetch_add on queued that will
\* find a value below nthreads
SignalComing ==
    \E s \in Submitters :
        \/ thr[s].pc = "enq_signal"
        \/ thr[s].pc = "enq_queued" /\ tp.queued < nthreads

\* C36: no wake-up on cv_work is lost. While a job is in the ring and stop is
\* not set, a worker is outside cv_work's wait set (awake, or signalled) or a
\* submitter is about to signal cv_work; and, as long as the threads that
\* are inside a call keep running, every job in the ring is taken out and
\* executed, also when no thread ever calls tpool_wait.
C36_NoLostWakeup ==
    /\ []((~tp.stop /\ \E job \in AllJobs : InRing(job))
            => ((\E w \in Workers : w \notin tp.cv_work) \/ SignalComing))
    /\ \A job \in AllJobs :
          (InRing(job) /\ ~tp.stop)
              ~> (<<job, "worker">> \in ran.by \/ <<job, "waiter">> \in ran.by)

\* the worker slept on cv_work and has been signalled while a job is in the
\* ring, and the main thread has not called tpool_wait
C36_Witness ==
    /\ \E w \in Workers : thr[w].pc = "w_sleep" /\ w \notin tp.cv_work
    /\ \E job \in AllJobs : InRing(job)
    /\ thr[MainThread].phase = 0
    /\ ~tp.stop


\* jobs that tpool_enqueue has counted and tpool_job_done has not yet
\* discounted: the job of a submitter between its fetch_add and the
\* publication of the slot (or its own run of the job when the ring is
\* full), the jobs published in the ring, and the job of a worker or waiter
\* between its release of the slot and its fetch_sub in tpool_job_done
HoldingPcs == {"te_load_head", "te_load_turn", "te_cas", "te_write",
               "te_store_turn", "te_reload", "inline_run",
               "deq_dec", "run", "jd_dec"}

Holders == {t \in Threads : thr[t].pc \in HoldingPcs}

FullSlots == {i \in DOMAIN tp.turn : tp.turn[i] % 2 = 1}

Executing == {t \in Threads : thr[t].pc \in {"run", "inline_run"}}

\* C37: in_flight is raised before a job is put in the ring and lowered only
\* after the job has returned: it counts exactly the jobs between the two,
\* so it is never negative, and when it is 0 the ring is empty and no
\* worker, waiter or submitter is executing a job
C37_InFlightCoversJobs ==
    /\ tp.in_flight = Cardinality(Holders) + Cardinality(FullSlots)
    /\ tp.in_flight >= 0
    /\ tp.in_flight = 0 => FullSlots = {} /\ Executing = {}

C37_Witness ==
    /\ tp.in_flight = 0
    /\ \E job \in AllJobs : <<job, "worker">> \in ran.by
    /\ \E s \in Submitters : thr[s].pc = "enq_in_flight"


\* C38: the queued counter is the number of jobs in the ring: in every state
\* of every interleaving of submitters, workers and waiters it is at least 0
\* and at most the capacity of the ring
C38_QueuedIsRingCount ==
    /\ tp.queued >= 0
    /\ tp.queued <= tp.capacity


\* the step on which worker w returns from tpool_worker
WorkerExits(w) == thr[w].pc # "exited" /\ thr'[w].pc = "exited"

AllExited == \A w \in Workers : thr[w].pc = "exited"

\* C39: a worker returns from tpool_worker only when stop is set and
\* in_flight is 0; once tpool_destroy has stored stop and broadcast cv_work
\* every worker eventually returns, and the joins of tpool_destroy end
C39_WorkersExitAfterStop ==
    /\ [][\A w \in Workers : WorkerExits(w) => tp.stop /\ tp.in_flight = 0]_vars
    /\ (thr[MainThread].pc = "d_join") ~> AllExited
    /\ (thr[MainThread].pc = "d_join") ~> (thr[MainThread].pc = "destroyed")

C39_Witness ==
    /\ thr[MainThread].pc = "destroyed"
    /\ AllExited
    /\ \E job \in AllJobs : <<job, "worker">> \in ran.by


\* the lane counts that ecs_set_task_callbacks can leave in task_count
AcceptedLanes == {ecs_set_task_callbacks(n) : n \in 0 .. (ECS_MT_MAX_TASKS + 1)}

\* C40: on the MT path of ecs_progress the tasks formed for one stage
\* (active systems of the stage times task_count) fit the per-task storage
\* of ECS_MT_MAX_TASKS slots, for every registry and every lane count that
\* ecs_set_task_callbacks accepts: every slot the driver fills is below
\* ECS_MT_MAX_TASKS
C40_TasksFitStorage ==
    (mt /\ task_count \in AcceptedLanes /\ drv.call = "progress"
        /\ drv.pc \in {"enqueue", "wait"}) =>
        /\ Len(drv.active) * task_count <= ECS_MT_MAX_TASKS
        /\ drv.pc = "enqueue" => drv.task_slot < ECS_MT_MAX_TASKS

=============================================================================
